---- MODULE Spec2Model ----
(***************************************************************************)
(* Session discovery and transcript watching engine of pixel-agents.      *)
(* One client connection (PixelAgentsSession, server/src/wsServer.ts)     *)
(* with its registry (server/src/agentManager.ts) and its log tailer and  *)
(* project scanner (fileWatcher.ts), over an append-only file system.     *)
(***************************************************************************)
EXTENDS Integers, Sequences, FiniteSets, TLC

(***************************************************************************)
(* Bounds of the model.                                                    *)
(***************************************************************************)
MaxId == 2          \* ids 1..MaxId can be allocated
MaxTailLen == 4     \* bytes of the log file under TailSpec and AttachSpec
MaxLive == 2        \* live watcher / interval handles per session id

Ids == 1..MaxId
NoAgent == 0        \* activeAgentIdRef.current === null

(***************************************************************************)
(* Paths.  PrimaryFiles are <projectDir>/<session>.jsonl, SubagentFiles    *)
(* are <projectDir>/<session>/subagents/<agent>.jsonl, for the project     *)
(* directory of the workspace of this server.  OtherFiles are the primary  *)
(* logs of the project directory of another workspace.                     *)
(***************************************************************************)
ProjectDir == "proj"
OtherDir == "other"
NoDir == "none"     \* no directory is scanned
PrimaryFiles == {"proj/a.jsonl", "proj/b.jsonl"}
SubagentFiles == {"proj/a/subagents/s.jsonl"}
OtherFiles == {"other/c.jsonl"}
ProjectPaths == PrimaryFiles \cup SubagentFiles
Paths == ProjectPaths \cup OtherFiles

\* the project directory a log file lies under
DirOf(f) == IF f \in OtherFiles THEN OtherDir ELSE ProjectDir

\* jsonlFile.includes('/subagents/')
IsSubagent(f) == f \in SubagentFiles

\* path.basename(file, '.jsonl')
Basename(f) ==
  CASE f = "proj/a.jsonl" -> "a"
    [] f = "proj/b.jsonl" -> "b"
    [] f = "other/c.jsonl" -> "c"
    [] OTHER -> "s"

(***************************************************************************)
(* Modification-time classes: Date.now() - stat.mtimeMs falls in           *)
(*   0: at most 30 s, 1: at most 5 min, 2: at most 1 h, 3: more than 1 h.  *)
(* "age > X_MS" in the code is "age class > X_MS" here.                    *)
(***************************************************************************)
SUBAGENT_STALE_MS == 0
ACTIVE_THRESHOLD_MS == 1
ONE_HOUR_MS == 2
MaxAge == ONE_HOUR_MS + 1

(***************************************************************************)
(* Bytes of a log file and the characters they decode to.  "hi" "lo" is    *)
(* the two-byte UTF-8 encoding of one character ("E9"); "FFFD" is the      *)
(* replacement character Buffer.toString('utf-8') yields for an           *)
(* incomplete or orphaned byte.                                            *)
(***************************************************************************)
Bytes == {"a", "sp", "nl", "hi", "lo"}
AsciiBytes == {"a", "nl"}

\* the byte sequences of at most n bytes
BoundedSeq(S, n) == UNION {[1..k -> S] : k \in 0..n}

\* the contents the watched log file goes through under Spec
RegistryContents == {<<>>, <<"a">>, <<"a", "nl">>}

RECURSIVE Decode(_)
Decode(bs) ==
  IF bs = <<>> THEN <<>>
  ELSE IF Head(bs) = "hi"
       THEN IF Len(bs) >= 2 /\ bs[2] = "lo"
            THEN <<"E9">> \o Decode(Tail(Tail(bs)))
            ELSE <<"FFFD">> \o Decode(Tail(bs))
       ELSE IF Head(bs) = "lo"
            THEN <<"FFFD">> \o Decode(Tail(bs))
            ELSE <<Head(bs)>> \o Decode(Tail(bs))

\* text.split('\n'): the pieces between the separators, one more than
\* there are separators
Split(t) ==
  LET seps == {i \in 1..Len(t) : t[i] = "nl"}
      \* the position of the k-th separator (0 for k = 0, past the end for
      \* k beyond the last one)
      sep(k) == IF k = 0 THEN 0
                ELSE IF k > Cardinality(seps) THEN Len(t) + 1
                ELSE CHOOSE p \in seps : Cardinality({q \in seps : q <= p}) = k
  IN [k \in 1..(Cardinality(seps) + 1) |->
        SubSeq(t, sep(k - 1) + 1, sep(k) - 1)]

\* !line.trim()
IsBlank(line) == \A i \in 1..Len(line) : line[i] = "sp"

\* lines.pop(): the pieces before the last one
Front(s) == SubSeq(s, 1, Len(s) - 1)
Last(s) == s[Len(s)]

\* positions in the file of the newline bytes in content[from+1 .. to]
RECURSIVE NlPositions(_, _, _)
NlPositions(content, from, to) ==
  IF from >= to THEN <<>>
  ELSE IF content[from + 1] = "nl"
       THEN <<from + 1>> \o NlPositions(content, from + 1, to)
       ELSE NlPositions(content, from + 1, to)

VARIABLES
  files,             \* path -> [exists, content, age]: the log files on disk
  persisted,         \* agents.json: set of PersistedAgent records
  agents,            \* Map<number, AgentState>
  nextAgentId,       \* nextAgentId.current
  activeAgentId,     \* activeAgentId.current (NoAgent = null)
  knownJsonlFiles,   \* Set<string>
  projectScanTimer,  \* projectScanTimer.current !== null
  scanDir,           \* the projectDir the callback of the scan timer lists
  disposed,          \* this.disposed
  layoutWatcher,     \* this.layoutWatcher !== null
  assetTask,         \* an asset-loading task started by 'webviewReady' is
                     \* suspended at one of its awaits
  cleanupTimer,      \* cleanupTimer !== null
  fileWatchers,      \* keys of the fileWatchers map
  pollingTimers,     \* keys of the pollingTimers map
  jsonlPollTimers,   \* keys of the jsonlPollTimers map
  waitingTimers,     \* keys of the waitingTimers map
  permissionTimers,  \* keys of the permissionTimers map
  liveWatch,         \* id -> number of open fs.watch handles calling back for id
  livePoll,          \* id -> number of running backup-poll intervals for id
  liveJsonlPoll,     \* ids with a running file-appearance interval
  procs,             \* ids whose pty process has not delivered onExit yet
  parsed,            \* id -> lines of the session's current log file handed
                     \* to processTranscriptLine so far
  issued,            \* ids given to a session of this connection so far
  retired,           \* ids of sessions removed so far
  liveWaiting,       \* id -> number of pending waiting-fallback timeouts
  livePermission,    \* id -> number of pending permission timeouts
  toolDoneTimers,    \* id -> number of pending "tool done" timeouts set by
                     \* processTranscriptLine of the editor-panel variant
  terminals,         \* extension.ts: the terminals map, id -> terminal object
                     \* (terminal objects are numbered as they are created)
  closedTerminals,   \* terminal objects that have been closed or disposed of
                     \* and whose close event has not been delivered yet
  nextTerminal,      \* the number of the next terminal object
  movedFrom,         \* terminal objects that handleMoveAgent has replaced
  wsReadyState,      \* wsClient.ts: ws.readyState of the socket that the
                     \* module variable ws refers to
  pending,           \* wsClient.ts: the array pending
  reconnectTimer,    \* wsClient.ts: a setTimeout(connectWebSocket) is pending
  posted,            \* number of calls of vscode.postMessage so far; the
                     \* k-th call posts message k
  sockets,           \* number of WebSocket objects created so far
  wire,              \* the calls of send so far: message, socket, and whether
                     \* the message came out of pending
  out,               \* messages posted to the client by the last handler
  lastOp             \* the last step, when it was a read of the tailer that
                     \* found no new bytes or a reset to a new log file,
                     \* else NoRead

vars == <<files, persisted, agents, nextAgentId, activeAgentId,
          knownJsonlFiles, projectScanTimer, scanDir, cleanupTimer,
          fileWatchers, pollingTimers, jsonlPollTimers, waitingTimers,
          permissionTimers, liveWatch, livePoll, liveJsonlPoll, procs,
          parsed, issued, retired, liveWaiting, livePermission,
          toolDoneTimers, disposed, layoutWatcher, assetTask, out, lastOp,
          wsReadyState, pending, reconnectTimer, posted, sockets, wire,
          terminals, closedTerminals, nextTerminal, movedFrom>>

envVars == <<files>>

\* the state of the browser client's transport (wsClient.ts)
clientVars == <<wsReadyState, pending, reconnectTimer, posted, sockets, wire>>

\* the state of the server and of the editor-panel variant
serverVars == <<files, persisted, agents, nextAgentId, activeAgentId,
                knownJsonlFiles, projectScanTimer, scanDir, cleanupTimer,
                fileWatchers, pollingTimers, jsonlPollTimers, waitingTimers,
                permissionTimers, liveWatch, livePoll, liveJsonlPoll, procs,
                parsed, issued, retired, liveWaiting, livePermission,
                toolDoneTimers, disposed, layoutWatcher, assetTask, out,
                lastOp, terminals, closedTerminals, nextTerminal, movedFrom>>

\* the terminals of the editor-panel variant (extension.ts)
terminalVars == <<terminals, closedTerminals, nextTerminal, movedFrom>>

(***************************************************************************)
(* The mutable state of the connection as one record, so that a handler    *)
(* is a composition of functions on it.                                    *)
(***************************************************************************)
Cur ==
  [agents |-> agents, nextAgentId |-> nextAgentId,
   activeAgentId |-> activeAgentId, knownJsonlFiles |-> knownJsonlFiles,
   projectScanTimer |-> projectScanTimer, scanDir |-> scanDir,
   disposed |-> disposed, layoutWatcher |-> layoutWatcher,
   assetTask |-> assetTask,
   cleanupTimer |-> cleanupTimer,
   fileWatchers |-> fileWatchers, pollingTimers |-> pollingTimers,
   jsonlPollTimers |-> jsonlPollTimers, waitingTimers |-> waitingTimers,
   permissionTimers |-> permissionTimers, liveWatch |-> liveWatch,
   livePoll |-> livePoll, liveJsonlPoll |-> liveJsonlPoll, procs |-> procs,
   persisted |-> persisted, parsed |-> parsed,
   liveWaiting |-> liveWaiting, livePermission |-> livePermission,
   toolDoneTimers |-> toolDoneTimers, terminals |-> terminals,
   closedTerminals |-> closedTerminals, nextTerminal |-> nextTerminal,
   movedFrom |-> movedFrom, out |-> <<>>]

\* the handler's result becomes the next state
Commit(result, op) ==
  \E s \in {result} :
    /\ agents' = s.agents
    /\ nextAgentId' = s.nextAgentId
    /\ activeAgentId' = s.activeAgentId
    /\ knownJsonlFiles' = s.knownJsonlFiles
    /\ projectScanTimer' = s.projectScanTimer
    /\ scanDir' = s.scanDir
    /\ disposed' = s.disposed
    /\ layoutWatcher' = s.layoutWatcher
    /\ assetTask' = s.assetTask
    /\ cleanupTimer' = s.cleanupTimer
    /\ fileWatchers' = s.fileWatchers
    /\ pollingTimers' = s.pollingTimers
    /\ jsonlPollTimers' = s.jsonlPollTimers
    /\ waitingTimers' = s.waitingTimers
    /\ permissionTimers' = s.permissionTimers
    /\ liveWatch' = s.liveWatch
    /\ livePoll' = s.livePoll
    /\ liveJsonlPoll' = s.liveJsonlPoll
    /\ procs' = s.procs
    /\ persisted' = s.persisted
    /\ parsed' = s.parsed
    /\ toolDoneTimers' = s.toolDoneTimers
    /\ liveWaiting' = s.liveWaiting
    /\ livePermission' = s.livePermission
    /\ terminals' = s.terminals
    /\ closedTerminals' = s.closedTerminals
    /\ nextTerminal' = s.nextTerminal
    /\ movedFrom' = s.movedFrom
    /\ issued' = issued \cup DOMAIN s.agents
    /\ retired' = retired \cup (DOMAIN agents \ DOMAIN s.agents)
    /\ out' = s.out
    /\ lastOp' = op
    /\ \A i \in Ids : s.liveWatch[i] <= MaxLive /\ s.livePoll[i] <= MaxLive
    /\ \A i \in Ids : s.liveWaiting[i] <= MaxLive
    /\ \A i \in Ids : s.livePermission[i] <= MaxLive
    /\ s.nextAgentId <= MaxId + 1
    /\ UNCHANGED clientVars

\* Map.set / Map.delete on a function with a finite domain
MapSet(m, k, v) == [x \in DOMAIN m \cup {k} |-> IF x = k THEN v ELSE m[x]]
MapDel(m, k) == [x \in DOMAIN m \ {k} |-> m[x]]

FileExists(f) == files[f].exists
FileSize(f) == Len(files[f].content)
FileAge(f) == files[f].age


\* lastOp after a watch callback or poll tick for id; nop tells that its
\* readNewLines returned early on stat.size <= agent.fileOffset
NoRead == [op |-> "other", id |-> 0, nop |-> FALSE]
Op(name, id) ==
  IF /\ id \in DOMAIN agents
     /\ FileExists(agents[id].jsonlFile)
     /\ FileSize(agents[id].jsonlFile) <= agents[id].fileOffset
  THEN [op |-> name, id |-> id, nop |-> TRUE]
  ELSE IF id \in DOMAIN agents /\ ~FileExists(agents[id].jsonlFile)
       THEN [op |-> "readFails", id |-> id, nop |-> FALSE]  \* statSync threw
       ELSE NoRead

\* wsClient.ts once the module is loaded and main.tsx has called
\* connectWebSocket(): the first socket is connecting
ClientInit ==
  /\ wsReadyState = "CONNECTING"
  /\ pending = <<>>
  /\ reconnectTimer = FALSE
  /\ posted = 0
  /\ sockets = 1
  /\ wire = <<>>

\* extension.ts before any terminal is made: the terminals map is empty
TerminalInit ==
  /\ terminals = <<>>
  /\ closedTerminals = {}
  /\ nextTerminal = 1
  /\ movedFrom = {}

TypeOK ==
  /\ DOMAIN agents \subseteq Ids
  /\ nextAgentId \in 1..(MaxId + 1)
  /\ knownJsonlFiles \subseteq Paths
  /\ fileWatchers \subseteq Ids
  /\ pollingTimers \subseteq Ids
  /\ \A f \in Paths : files[f].age \in 0..MaxAge

(***************************************************************************)
(* The environment: the observed agent processes create and append to      *)
(* their log files, and time passes.  Files are append-only and hold a     *)
(* prefix of a valid UTF-8 stream.                                         *)
(***************************************************************************)
ValidNext(content, b) ==
  IF Len(content) > 0 /\ Last(content) = "hi" THEN b = "lo" ELSE b # "lo"

CreateFile(f) ==
  /\ ~FileExists(f)
  /\ IsSubagent(f) => FileExists("proj/a.jsonl")
  /\ files' = [files EXCEPT ![f] = [exists |-> TRUE, content |-> <<>>, age |-> 0]]
  /\ lastOp' = NoRead
  /\ out' = <<>>
  /\ UNCHANGED <<persisted, agents, nextAgentId, activeAgentId,
                 knownJsonlFiles, projectScanTimer, cleanupTimer,
                 fileWatchers, pollingTimers, jsonlPollTimers, waitingTimers,
                 permissionTimers, liveWatch, livePoll, liveJsonlPoll, procs,
                 parsed, issued, retired, liveWaiting, livePermission,
                 toolDoneTimers, scanDir, disposed, layoutWatcher,
                 assetTask, clientVars, terminalVars>>

AppendByte(f, b, contents) ==
  /\ FileExists(f)
  /\ Append(files[f].content, b) \in contents
  /\ ValidNext(files[f].content, b)
  /\ files' = [files EXCEPT ![f].content = Append(@, b), ![f].age = 0]
  /\ lastOp' = NoRead
  /\ out' = <<>>
  /\ UNCHANGED <<persisted, agents, nextAgentId, activeAgentId,
                 knownJsonlFiles, projectScanTimer, cleanupTimer,
                 fileWatchers, pollingTimers, jsonlPollTimers, waitingTimers,
                 permissionTimers, liveWatch, livePoll, liveJsonlPoll, procs,
                 parsed, issued, retired, liveWaiting, livePermission,
                 toolDoneTimers, scanDir, disposed, layoutWatcher,
                 assetTask, clientVars, terminalVars>>

\* time passes: every log file's modification time falls one class back
Tick ==
  /\ \E f \in Paths : FileExists(f) /\ FileAge(f) < MaxAge
  /\ files' = [f \in Paths |->
                IF FileExists(f) /\ FileAge(f) < MaxAge
                THEN [files[f] EXCEPT !.age = @ + 1] ELSE files[f]]
  /\ lastOp' = NoRead
  /\ out' = <<>>
  /\ UNCHANGED <<persisted, agents, nextAgentId, activeAgentId,
                 knownJsonlFiles, projectScanTimer, cleanupTimer,
                 fileWatchers, pollingTimers, jsonlPollTimers, waitingTimers,
                 permissionTimers, liveWatch, livePoll, liveJsonlPoll, procs,
                 parsed, issued, retired, liveWaiting, livePermission,
                 toolDoneTimers, scanDir, disposed, layoutWatcher,
                 assetTask, clientVars, terminalVars>>

\* a log file becomes unreadable for a while (momentarily missing,
\* permission denied): existsSync answers false, statSync and openSync throw
MakeUnreadable(f) ==
  /\ FileExists(f)
  /\ files' = [files EXCEPT ![f].exists = FALSE]
  /\ lastOp' = NoRead
  /\ out' = <<>>
  /\ UNCHANGED <<persisted, agents, nextAgentId, activeAgentId,
                 knownJsonlFiles, projectScanTimer, cleanupTimer,
                 fileWatchers, pollingTimers, jsonlPollTimers, waitingTimers,
                 permissionTimers, liveWatch, livePoll, liveJsonlPoll, procs,
                 parsed, issued, retired, liveWaiting, livePermission,
                 toolDoneTimers, scanDir, disposed, layoutWatcher,
                 assetTask, clientVars, terminalVars>>

\* and readable again, with the bytes it had
MakeReadable(f) ==
  /\ ~FileExists(f)
  /\ files' = [files EXCEPT ![f].exists = TRUE]
  /\ lastOp' = NoRead
  /\ out' = <<>>
  /\ UNCHANGED <<persisted, agents, nextAgentId, activeAgentId,
                 knownJsonlFiles, projectScanTimer, cleanupTimer,
                 fileWatchers, pollingTimers, jsonlPollTimers, waitingTimers,
                 permissionTimers, liveWatch, livePoll, liveJsonlPoll, procs,
                 parsed, issued, retired, liveWaiting, livePermission,
                 toolDoneTimers, scanDir, disposed, layoutWatcher,
                 assetTask, clientVars, terminalVars>>

(***************************************************************************)
(* timerManager.ts: the waiting-fallback and permission timeouts, one map  *)
(* entry per session id.                                                   *)
(***************************************************************************)
\* cancelWaitingTimer: clearTimeout of the entry, which is deleted
CancelWaitingTimer(s, id) ==
  [s EXCEPT !.liveWaiting[id] = IF id \in s.waitingTimers THEN @ - 1 ELSE @,
            !.waitingTimers = @ \ {id}]

\* cancelPermissionTimer
CancelPermissionTimer(s, id) ==
  [s EXCEPT !.livePermission[id] = IF id \in s.permissionTimers THEN @ - 1
                                  ELSE @,
            !.permissionTimers = @ \ {id}]

\* a timeout installed on top of the pending one
StartWaitingTimerAdd(s, id) ==
  [s EXCEPT !.waitingTimers = @ \cup {id}, !.liveWaiting[id] = @ + 1]

\* startWaitingTimer: the pending timeout is cancelled, a new one installed
StartWaitingTimer(s, id) ==
  LET s1 == CancelWaitingTimer(s, id)
  IN [s1 EXCEPT !.waitingTimers = @ \cup {id}, !.liveWaiting[id] = @ + 1]

\* startPermissionTimer
StartPermissionTimer(s, id) ==
  LET s1 == CancelPermissionTimer(s, id)
  IN [s1 EXCEPT !.permissionTimers = @ \cup {id},
                !.livePermission[id] = @ + 1]

(***************************************************************************)
(* fileWatcher.ts: the log tailer.                                         *)
(***************************************************************************)
\* fs.watch + setInterval of startFileWatching.  watchOk = FALSE is fs.watch
\* throwing; it always throws for a file that does not exist.
StartFileWatching(s, id, f, watchOk) ==
  LET w == watchOk /\ FileExists(f)
      s1 == IF w
            THEN [s EXCEPT !.fileWatchers = @ \cup {id},
                           !.liveWatch[id] = @ + 1]
            ELSE s
  IN [s1 EXCEPT !.pollingTimers = @ \cup {id}, !.livePoll[id] = @ + 1]

\* if (stat.size <= agent.fileOffset) return;
NoNewBytes(size, offset) == size <= offset

\* the offset left where it was
AdvanceOffsetStuck(offset, size) == offset

\* the size added to the offset
AdvanceOffsetAdd(offset, size) == offset + size

\* agent.fileOffset = stat.size
AdvanceOffset(offset, size) == size

\* the lines of one read that are handed to processTranscriptLine, each with
\* the file position of its terminating newline
RECURSIVE Handed(_, _, _)
Handed(lines, ends, f) ==
  IF lines = <<>> THEN <<>>
  ELSE IF IsBlank(Head(lines))
       THEN Handed(Tail(lines), Tail(ends), f)
       ELSE <<[text |-> Head(lines), end |-> Head(ends), file |-> f]>>
            \o Handed(Tail(lines), Tail(ends), f)

\* a read that finds no new bytes treating the pending fragment as a line
NoNewBytesFlush(s, id) ==
  LET a == s.agents[id]
  IN [s EXCEPT !.agents[id].lineBuffer = <<>>,
               !.parsed[id] = @ \o
                  (IF IsBlank(a.lineBuffer) THEN <<>>
                   ELSE <<[text |-> a.lineBuffer, end |-> a.fileOffset,
                           file |-> a.jsonlFile]>>)]

\* the early return of readNewLines when stat.size <= agent.fileOffset
NoNewBytesReturn(s, id) == s

\* a read that leaves the timers and the permission flag as they are
DataArrivedSkip(s, id, hasLines) == s

\* "if (hasLines) { ... }" of readNewLines: new data cancels the timers and
\* withdraws a permission request
DataArrived(s, id, hasLines) ==
  IF ~hasLines THEN s
  ELSE LET s1 == CancelPermissionTimer(CancelWaitingTimer(s, id), id)
       IN IF s1.agents[id].permissionSent
          THEN [s1 EXCEPT
                  !.agents[id].permissionSent = FALSE,
                  !.out = Append(@, [type |-> "agentToolPermissionClear",
                                     id |-> id])]
          ELSE s1

\* readNewLines from "const lines = text.split('\n')" on: text is the
\* pending fragment followed by the decoded bytes read up to size
SplitAndProcess(s, id, size, text) ==
  LET a == s.agents[id]
      f == a.jsonlFile
      pieces == Split(text)
      lines == Front(pieces)
      ends == NlPositions(files[f].content, a.fileOffset, size)
      hasLines == \E i \in 1..Len(lines) : ~IsBlank(lines[i])
      s1 == [s EXCEPT
               !.agents[id].fileOffset = AdvanceOffset(a.fileOffset, size),
               !.agents[id].lineBuffer = Last(pieces)]
      s2 == DataArrived(s1, id, hasLines)
  IN [s2 EXCEPT !.parsed[id] = @ \o Handed(lines, ends, f)]

\* a failed read that starts the file over
ReadFailedReset(s, id) ==
  [s EXCEPT !.agents[id].fileOffset = 0, !.agents[id].lineBuffer = <<>>]

\* the catch block of readNewLines: the error is logged
ReadFailed(s, id) == s

\* readNewLines.  (The CHOOSE over singleton sets only names the session
\* and the text once they are computed.)
ReadNewLines(s, id) ==
  IF id \notin DOMAIN s.agents THEN s
  ELSE LET a == s.agents[id]
           f == a.jsonlFile
       IN IF ~FileExists(f) THEN ReadFailed(s, id)     \* statSync throws
          ELSE IF NoNewBytes(FileSize(f), a.fileOffset)
               THEN NoNewBytesReturn(s, id)
          ELSE
            LET size == FileSize(f)
                buf == SubSeq(files[f].content, a.fileOffset + 1, size)
            IN CHOOSE r \in {SplitAndProcess(s0, id, size, text) :
                               s0 \in {s},
                               text \in {a.lineBuffer \o Decode(buf)}} : TRUE

\* the fs.watch callback of startFileWatching
WatchCallback(id) ==
  /\ liveWatch[id] > 0
  /\ Commit(ReadNewLines(Cur, id), Op("watch", id))
  /\ UNCHANGED envVars

\* a tick of the backup interval that reads nothing
PollReadSkip(s, id) == s

\* what a tick of the backup interval does for a session that is tracked
PollRead(s, id) == ReadNewLines(s, id)

\* the setInterval callback of startFileWatching
PollTick(id) ==
  /\ livePoll[id] > 0
  /\ IF id \notin DOMAIN agents
     THEN Commit([Cur EXCEPT !.livePoll[id] = @ - 1], NoRead)
     ELSE Commit(PollRead(Cur, id), Op("poll", id))
  /\ UNCHANGED envVars

\* the file-appearance interval of launchNewTerminal
JsonlPollTick(id, watchOk) ==
  /\ id \in liveJsonlPoll
  /\ id \in DOMAIN agents
  /\ IF FileExists(agents[id].jsonlFile)
     THEN LET s1 == [Cur EXCEPT !.liveJsonlPoll = @ \ {id},
                                !.jsonlPollTimers = @ \ {id}]
              s2 == StartFileWatching(s1, id, agents[id].jsonlFile, watchOk)
          IN Commit(ReadNewLines(s2, id), NoRead)
     ELSE Commit(Cur, NoRead)
  /\ UNCHANGED envVars

\* clearAgentActivity (timerManager.ts): the in-flight activity of the
\* session is dropped and the client told so
ClearAgentActivity(s, id) ==
  [CancelPermissionTimer(s, id) EXCEPT
     !.agents[id].activeToolIds = {},
     !.agents[id].isWaiting = FALSE,
     !.agents[id].permissionSent = FALSE,
     !.out = Append(@, [type |-> "agentToolsClear", id |-> id])]

(***************************************************************************)
(* agentManager.ts: the registry.                                          *)
(***************************************************************************)
NewAgent(id, hasProc, f, dir, sid) ==
  [id |-> id, processRef |-> hasProc, sessionId |-> sid, projectDir |-> dir,
   jsonlFile |-> f, fileOffset |-> 0, lineBuffer |-> <<>>,
   activeToolIds |-> {}, isWaiting |-> FALSE, permissionSent |-> FALSE,
   hadToolsInTurn |-> FALSE]

\* persistAgents: the records written to agents.json
PersistAgents(ags) ==
  {[id |-> ags[i].id, sessionId |-> ags[i].sessionId,
    jsonlFile |-> ags[i].jsonlFile, projectDir |-> ags[i].projectDir]
     : i \in DOMAIN ags}

\* a handler that leaves agents.json as it was
PersistSkip(s) == s

\* persistAgentsBound: the registry written to agents.json
Persist(s) == [s EXCEPT !.persisted = PersistAgents(s.agents)]

\* ensureProjectScan: the seeding with the log files of projectDir and of
\* its subagents directories, and the installation of the timer
EnsureProjectScan(s, dir) ==
  IF s.projectScanTimer THEN s
  ELSE [s EXCEPT !.knownJsonlFiles =
                    @ \cup {f \in Paths : FileExists(f) /\ DirOf(f) = dir},
                 !.projectScanTimer = TRUE,
                 !.scanDir = dir]

\* no path taken as tracked
TrackedFilesNone(ags) == {}

\* the set of log paths of the tracked sessions (trackedFiles of
\* autoDiscoverAgents)
TrackedFiles(ags) == {ags[i].jsonlFile : i \in DOMAIN ags}


\* removeAgent
RemoveAgent(s, id) ==
  IF id \notin DOMAIN s.agents THEN s
  ELSE Persist(
    [CancelPermissionTimer(CancelWaitingTimer(s, id), id) EXCEPT
       !.liveJsonlPoll = @ \ {id},
       !.jsonlPollTimers = @ \ {id},
       !.liveWatch[id] = IF id \in s.fileWatchers THEN @ - 1 ELSE @,
       !.fileWatchers = @ \ {id},
       !.livePoll[id] = IF id \in s.pollingTimers THEN @ - 1 ELSE @,
       !.pollingTimers = @ \ {id},
       !.parsed[id] = <<>>,
       !.agents = MapDel(@, id)])

\* "try { stat; agent.fileOffset = stat.size; startFileWatching } catch {}"
\* of restoreAgents, autoDiscoverAgents and scanForNewJsonlFiles
AttachAtEnd(s, id, f, watchOk) ==
  IF ~FileExists(f) THEN s
  ELSE StartFileWatching([s EXCEPT !.agents[id].fileOffset = FileSize(f)],
                         id, f, watchOk)

\* an iteration that restores nothing
RestoreOneSkip(s, p, watchOk) == s

\* one iteration of the loop of restoreAgents over a surviving entry
RestoreOne(s, p, watchOk) ==
  LET s1 == [s EXCEPT
               !.agents = MapSet(@, p.id,
                  NewAgent(p.id, FALSE, p.jsonlFile, p.projectDir, p.sessionId)),
               !.knownJsonlFiles = @ \cup {p.jsonlFile},
               !.parsed[p.id] = <<>>]
  IN AttachAtEnd(s1, p.id, p.jsonlFile, watchOk)

RECURSIVE RestoreAll(_, _, _)
RestoreAll(s, ps, watchOk) ==
  IF ps = {} THEN s
  ELSE LET p == CHOOSE x \in ps : TRUE
       IN RestoreAll(RestoreOne(s, p, watchOk), ps \ {p}, watchOk)

SetMax(S) == IF S = {} THEN 0 ELSE CHOOSE m \in S : \A x \in S : x <= m

\* the counter left where it was
NextIdKeep(next, maxId) == next

\* if (maxId >= nextAgentIdRef.current) nextAgentIdRef.current = maxId + 1
NextIdAfterRestore(next, maxId) == IF maxId >= next THEN maxId + 1 ELSE next

\* restoreAgents
RestoreAgents(s, watchOk) ==
  IF s.persisted = {} THEN s
  ELSE
    LET surviving == {p \in s.persisted :
                        /\ FileExists(p.jsonlFile)
                        /\ ~(FileAge(p.jsonlFile) > ONE_HOUR_MS)}
        maxId == SetMax({p.id : p \in surviving})
        \* restoredProjectDir: the projectDir of the last entry restored;
        \* persistAgents writes the entries in the order of their ids
        restoredProjectDir ==
          (CHOOSE p \in surviving : p.id = maxId).projectDir
        s1 == RestoreAll(s, surviving, watchOk)
        s2 == [s1 EXCEPT !.nextAgentId = NextIdAfterRestore(@, maxId)]
        s3 == Persist(s2)
    IN IF surviving # {} THEN EnsureProjectScan(s3, restoredProjectDir)
       ELSE s3

\* "const id = nextAgentIdRef.current++; ... agents.set(id, agent);
\* postMessage agentCreated" of autoDiscoverAgents and scanForNewJsonlFiles
CreateDiscovered(s, f) ==
  LET id == s.nextAgentId
  IN IF id \notin Ids THEN [s EXCEPT !.nextAgentId = @ + 1]
     ELSE [s EXCEPT
             !.nextAgentId = @ + 1,
             !.agents = MapSet(@, id,
                NewAgent(id, FALSE, f, DirOf(f), Basename(f))),
             !.parsed[id] = <<>>,
             !.out = Append(@, [type |-> "agentCreated", id |-> id])]

\* the creation of a session for a log file found on disk
Discovered(s, f, watchOk) ==
  LET id == s.nextAgentId
      s1 == CreateDiscovered(s, f)
  IN IF id \notin Ids THEN s1 ELSE AttachAtEnd(s1, id, f, watchOk)

\* the loop of autoDiscoverAgents over the listed files
RECURSIVE DiscoverLoop(_, _, _, _)
DiscoverLoop(s, fs, tracked, watchOk) ==
  IF fs = <<>> THEN s
  ELSE LET f == Head(fs)
       IN IF f \in tracked \/ FileAge(f) > ACTIVE_THRESHOLD_MS
          THEN DiscoverLoop(s, Tail(fs), tracked, watchOk)
          ELSE DiscoverLoop(
                 [Discovered(s, f, watchOk) EXCEPT !.knownJsonlFiles = @ \cup {f}],
                 Tail(fs), tracked, watchOk)

\* the files of a listing that exist, in listing order
Existing(fs) == SelectSeq(fs, LAMBDA f : FileExists(f))

\* autoDiscoverAgents: order is the order in which readdirSync lists the
\* project directory
AutoDiscoverAgents(s, order, watchOk) ==
  IF \A f \in ProjectPaths : ~FileExists(f) THEN s  \* no project directory
  ELSE LET jsonlFiles == Existing(SelectSeq(order, LAMBDA f : f \in PrimaryFiles))
           s1 == DiscoverLoop(s, jsonlFiles, TrackedFiles(s.agents), watchOk)
       IN IF DOMAIN s1.agents # {} THEN Persist(s1) ELSE s1

\* a scan that takes every listed file as new
KnownHasNever(known, f) == FALSE

\* knownJsonlFiles.has(file)
KnownHas(known, f) == f \in known

\* the loop of scanForNewJsonlFiles over the listed files
RECURSIVE ScanLoop(_, _, _)
ScanLoop(s, fs, watchOk) ==
  IF fs = <<>> THEN s
  ELSE LET f == Head(fs)
       IN IF KnownHas(s.knownJsonlFiles, f) THEN ScanLoop(s, Tail(fs), watchOk)
          ELSE LET s1 == [s EXCEPT !.knownJsonlFiles = @ \cup {f}]
               IN IF FileAge(f) > ACTIVE_THRESHOLD_MS
                  THEN ScanLoop(s1, Tail(fs), watchOk)
                  ELSE ScanLoop(Persist(Discovered(s1, f, watchOk)),
                                Tail(fs), watchOk)

\* ascending list of a set of ids (agentIds.sort)
RECURSIVE SortIds(_)
SortIds(S) ==
  IF S = {} THEN <<>>
  ELSE LET m == CHOOSE x \in S : \A y \in S : x <= y
       IN <<m>> \o SortIds(S \ {m})

\* sendExistingAgents
\* the agentToolStart messages of one session, one per in-flight tool
RECURSIVE ToolStarts(_, _)
ToolStarts(id, tools) ==
  IF tools = {} THEN <<>>
  ELSE LET t == CHOOSE x \in tools : TRUE
       IN <<[type |-> "agentToolStart", id |-> id, toolId |-> t]>>
          \o ToolStarts(id, tools \ {t})

\* the messages of sendCurrentAgentStatuses for the sessions ids
RECURSIVE StatusesOf(_, _)
StatusesOf(ags, ids) ==
  IF ids = <<>> THEN <<>>
  ELSE LET a == ags[Head(ids)]
       IN ToolStarts(a.id, a.activeToolIds)
          \o (IF a.isWaiting
              THEN <<[type |-> "agentStatus", id |-> a.id,
                      status |-> "waiting"]>>
              ELSE <<>>)
          \o StatusesOf(ags, Tail(ids))

\* a resync that sends no status
SendCurrentAgentStatusesNone(s) == s

\* sendCurrentAgentStatuses
SendCurrentAgentStatuses(s) ==
  [s EXCEPT !.out = @ \o StatusesOf(s.agents, SortIds(DOMAIN s.agents))]

SendExistingAgents(s) ==
  SendCurrentAgentStatuses(
    [s EXCEPT !.out = Append(@, [type |-> "existingAgents",
                                agents |-> SortIds(DOMAIN s.agents)])])

\* the orders in which a directory listing can return the log files:
\* the primary logs in any order, then the logs of the subagents directories
Listings ==
  {<<"proj/a.jsonl", "proj/a/subagents/s.jsonl">>}

(***************************************************************************)
(* wsServer.ts: the handlers of one connection.                            *)
(***************************************************************************)
\* handleMessage, case 'webviewReady'
WebviewReady(order, watchOk) ==
  LET s1 == RestoreAgents(Cur, watchOk)
      s2 == AutoDiscoverAgents(s1, order, watchOk)
      s3 == [s2 EXCEPT !.out = Append(@, [type |-> "settingsLoaded"])]
      s4 == EnsureProjectScan(s3, ProjectDir)
      \* the async block runs up to its first await
      s5 == [s4 EXCEPT !.cleanupTimer = TRUE, !.assetTask = TRUE]
  IN /\ Commit(SendExistingAgents(s5), NoRead)
     /\ UNCHANGED envVars

\* lastOp after a scan tick: a scan that met a file it did not know is
\* recorded
ScanOp(s) ==
  IF s.knownJsonlFiles # knownJsonlFiles
  THEN [op |-> "scan", id |-> 0, nop |-> FALSE]
  ELSE NoRead

\* the files of a listing that lie under dir
InDir(fs, dir) == SelectSeq(fs, LAMBDA f : DirOf(f) = dir)

\* the setInterval callback of ensureProjectScan: scanForNewJsonlFiles over
\* the directory the timer was installed for
ScanTick(order, watchOk) ==
  /\ projectScanTimer
  /\ \E s \in {ScanLoop(Cur, Existing(InDir(order, scanDir)), watchOk)} :
       Commit(s, ScanOp(s))
  /\ UNCHANGED envVars

\* a focus message that also forgets the files seen so far
SetActiveAgentIdForget(s, id) ==
  [s EXCEPT !.activeAgentId = id, !.knownJsonlFiles = {}]

\* this.activeAgentId.current = message.id
SetActiveAgentId(s, id) == [s EXCEPT !.activeAgentId = id]

\* handleMessage, case 'setActiveAgent'
SetActiveAgent(id) ==
  /\ Commit(SetActiveAgentId(Cur, id), [op |-> "focus", id |-> id, nop |-> FALSE])
  /\ UNCHANGED envVars

\* launchNewTerminal; f is <projectDir>/<randomUUID()>.jsonl, a path that
\* has never been seen
LaunchNewTerminal(f) ==
  /\ f \in PrimaryFiles
  /\ ~FileExists(f)
  /\ f \notin knownJsonlFiles
  /\ f \notin TrackedFiles(agents)
  /\ f \notin {p.jsonlFile : p \in persisted}
  /\ nextAgentId \in Ids
  /\ LET id == nextAgentId
         s1 == [Cur EXCEPT
                  !.knownJsonlFiles = @ \cup {f},
                  !.nextAgentId = @ + 1,
                  !.agents = MapSet(@, id,
                     NewAgent(id, TRUE, f, ProjectDir, Basename(f))),
                  !.parsed[id] = <<>>,
                  !.activeAgentId = id,
                  !.procs = @ \cup {id}]
         s2 == [Persist(s1) EXCEPT
                  !.out = Append(@, [type |-> "agentCreated", id |-> id])]
         s3 == EnsureProjectScan(s2, ProjectDir)
     IN Commit([s3 EXCEPT !.jsonlPollTimers = @ \cup {id},
                          !.liveJsonlPoll = @ \cup {id}],
               NoRead)
  /\ UNCHANGED envVars

\* the proc.onExit callback of launchNewTerminal
ProcessExit(id) ==
  /\ id \in procs
  /\ LET s1 == RemoveAgent([Cur EXCEPT !.procs = @ \ {id}], id)
     IN Commit([s1 EXCEPT !.out = Append(@, [type |-> "agentClosed", id |-> id])],
               NoRead)
  /\ UNCHANGED envVars

\* handleMessage, case 'closeAgent'
CloseAgent(id) ==
  /\ IF id \in DOMAIN agents
     THEN Commit([RemoveAgent(Cur, id) EXCEPT
                    !.out = Append(@, [type |-> "agentClosed", id |-> id])],
                 NoRead)
     ELSE Commit(Cur, NoRead)
  /\ UNCHANGED envVars

\* the loop of cleanupStaleSubagents over the tracked sessions
RECURSIVE CleanupLoop(_, _)
CleanupLoop(s, ids) ==
  IF ids = <<>> THEN s
  ELSE LET id == Head(ids)
           f == s.agents[id].jsonlFile
       IN IF ~IsSubagent(f) THEN CleanupLoop(s, Tail(ids))
          ELSE IF ~FileExists(f) \/ FileAge(f) > SUBAGENT_STALE_MS
               THEN CleanupLoop(
                      [RemoveAgent(s, id) EXCEPT
                         !.out = Append(@, [type |-> "agentClosed", id |-> id])],
                      Tail(ids))
               ELSE CleanupLoop(s, Tail(ids))

\* lastOp after a cleanup tick: a tick that met a sub-session is recorded
CleanupOp ==
  IF \E id \in DOMAIN agents : IsSubagent(agents[id].jsonlFile)
  THEN [op |-> "cleanup", id |-> 0, nop |-> FALSE]
  ELSE NoRead

\* the setInterval callback installed by 'webviewReady'
CleanupTick ==
  /\ cleanupTimer
  /\ Commit(CleanupLoop(Cur, SortIds(DOMAIN agents)), CleanupOp)
  /\ UNCHANGED envVars

\* reassignAgentToFile
ReassignAgentToFile(id, f, watchOk) ==
  /\ IF id \notin DOMAIN agents THEN Commit(Cur, NoRead)
     ELSE LET s0 == [Cur EXCEPT
                       !.liveWatch[id] = IF id \in fileWatchers THEN @ - 1 ELSE @,
                       !.fileWatchers = @ \ {id},
                       !.livePoll[id] = IF id \in pollingTimers THEN @ - 1 ELSE @,
                       !.pollingTimers = @ \ {id}]
              s1 == CancelPermissionTimer(CancelWaitingTimer(s0, id), id)
              s2 == ClearAgentActivity(s1, id)
              s3 == Persist([s2 EXCEPT !.agents[id].jsonlFile = f,
                                       !.agents[id].fileOffset = 0,
                                       !.agents[id].lineBuffer = <<>>,
                                       !.parsed[id] = <<>>])
              s4 == StartFileWatching(s3, id, f, watchOk)
          IN Commit(ReadNewLines(s4, id),
                    [op |-> "reassign", id |-> id, nop |-> FALSE])
  /\ UNCHANGED envVars

(***************************************************************************)
(* The state in which one session has just been launched (id 1, log file   *)
(* proj/a.jsonl not written yet), and the tailer's steps from there.       *)
(***************************************************************************)
TailFile == "proj/a.jsonl"

TailInit ==
  /\ files = [f \in Paths |-> [exists |-> FALSE, content |-> <<>>, age |-> 0]]
  /\ agents = (1 :> NewAgent(1, TRUE, TailFile, ProjectDir, "a"))
  /\ persisted = PersistAgents(agents)
  /\ nextAgentId = 2
  /\ activeAgentId = 1
  /\ knownJsonlFiles = {TailFile}
  /\ projectScanTimer = TRUE
  /\ scanDir = ProjectDir
  /\ cleanupTimer = FALSE
  /\ disposed = FALSE
  /\ layoutWatcher = FALSE
  /\ assetTask = FALSE
  /\ fileWatchers = {}
  /\ pollingTimers = {}
  /\ jsonlPollTimers = {1}
  /\ waitingTimers = {}
  /\ permissionTimers = {}
  /\ liveWatch = [i \in Ids |-> 0]
  /\ livePoll = [i \in Ids |-> 0]
  /\ liveJsonlPoll = {1}
  /\ procs = {1}
  /\ parsed = [i \in Ids |-> <<>>]
  /\ issued = {1}
  /\ retired = {}
  /\ toolDoneTimers = [i \in Ids |-> 0]
  /\ liveWaiting = [i \in Ids |-> 0]
  /\ livePermission = [i \in Ids |-> 0]
  /\ out = <<[type |-> "agentCreated", id |-> 1]>>
  /\ lastOp = NoRead
  /\ ClientInit
  /\ TerminalInit

TailNext ==
  \/ CreateFile(TailFile)
  \/ \E b \in Bytes : AppendByte(TailFile, b, BoundedSeq(Bytes, MaxTailLen))
  \/ \E w \in BOOLEAN : JsonlPollTick(1, w)
  \/ WatchCallback(1)
  \/ PollTick(1)

TailSpec == TailInit /\ [][TailNext]_vars

\* setInterval fires its callback again and again: the backup poll interval
\* of startFileWatching keeps ticking.  Nothing is assumed of the fs.watch
\* callback.
TailLiveSpec == TailSpec /\ WF_vars(PollTick(1))

(***************************************************************************)
(* A new connection.  agents.json holds what an earlier run left there.    *)
(***************************************************************************)
InitialSnapshots ==
  {PersistAgents(m) : m \in
     { <<>>,
       (2 :> NewAgent(2, FALSE, "proj/a.jsonl", ProjectDir, "a")) }}

\* the log files that come to exist while the connection is open
RegistryFiles == {"proj/a.jsonl", "proj/a/subagents/s.jsonl"}

Init ==
  /\ files = [f \in Paths |-> [exists |-> FALSE, content |-> <<>>, age |-> 0]]
  /\ persisted \in InitialSnapshots
  /\ agents = <<>>
  /\ nextAgentId = 1
  /\ activeAgentId = NoAgent
  /\ knownJsonlFiles = {}
  /\ projectScanTimer = FALSE
  /\ scanDir = NoDir
  /\ cleanupTimer = FALSE
  /\ disposed = FALSE
  /\ layoutWatcher = FALSE
  /\ assetTask = FALSE
  /\ fileWatchers = {}
  /\ pollingTimers = {}
  /\ jsonlPollTimers = {}
  /\ waitingTimers = {}
  /\ permissionTimers = {}
  /\ liveWatch = [i \in Ids |-> 0]
  /\ livePoll = [i \in Ids |-> 0]
  /\ liveJsonlPoll = {}
  /\ procs = {}
  /\ parsed = [i \in Ids |-> <<>>]
  /\ issued = {}
  /\ retired = {}
  /\ toolDoneTimers = [i \in Ids |-> 0]
  /\ liveWaiting = [i \in Ids |-> 0]
  /\ livePermission = [i \in Ids |-> 0]
  /\ out = <<>>
  /\ lastOp = NoRead
  /\ ClientInit
  /\ TerminalInit

Next ==
  \/ \E f \in RegistryFiles : CreateFile(f)
  \/ \E b \in AsciiBytes : AppendByte(TailFile, b, RegistryContents)
  \/ Tick
  \/ \E order \in Listings : WebviewReady(order, TRUE)
  \/ \E order \in Listings : ScanTick(order, TRUE)
  \/ \E f \in RegistryFiles : LaunchNewTerminal(f)
  \/ \E id \in Ids : JsonlPollTick(id, TRUE)
  \/ \E id \in Ids : WatchCallback(id)
  \/ \E id \in Ids : PollTick(id)
  \/ \E id \in Ids : ProcessExit(id)
  \/ \E id \in Ids : CloseAgent(id)
  \/ CleanupTick

Spec == Init /\ [][Next]_vars

(***************************************************************************)
(* A new connection over a project whose log is being written: sessions    *)
(* are attached by restore, discovery and scan while lines are appended.   *)
(***************************************************************************)
AttachListings == {<<"proj/a.jsonl", "proj/b.jsonl">>}

AttachNext ==
  \/ CreateFile(TailFile)
  \/ \E b \in AsciiBytes :
        AppendByte(TailFile, b, BoundedSeq(AsciiBytes, MaxTailLen))
  \/ \E order \in AttachListings : WebviewReady(order, TRUE)
  \/ \E order \in AttachListings : ScanTick(order, TRUE)
  \/ \E id \in Ids : WatchCallback(id)
  \/ \E id \in Ids : PollTick(id)

AttachSpec == Init /\ [][AttachNext]_vars

(***************************************************************************)
(* The same, with sessions reset to the log file of a new conversation.    *)
(***************************************************************************)
ResetFile == "proj/b.jsonl"

ResetNext ==
  \/ \E f \in PrimaryFiles : CreateFile(f)
  \/ \E f \in PrimaryFiles : \E b \in AsciiBytes :
        AppendByte(f, b, RegistryContents)
  \/ \E order \in AttachListings : WebviewReady(order, TRUE)
  \/ \E order \in AttachListings : ScanTick(order, TRUE)
  \/ \E id \in Ids : WatchCallback(id)
  \/ \E id \in Ids : PollTick(id)
  \/ \E id \in Ids : ReassignAgentToFile(id, ResetFile, TRUE)

ResetSpec == Init /\ [][ResetNext]_vars

(***************************************************************************)
(* restoreAgents on its own: agents.json holds what persistAgents wrote    *)
(* for some registry of an earlier run, the log files are in any state,    *)
(* and the registry of the new connection is empty.                        *)
(***************************************************************************)
\* the registries an earlier run can have had: distinct ids, distinct paths
RestoreRegistries ==
  UNION {{m \in [S -> ProjectPaths] :
             \A i, j \in S : i # j => m[i] # m[j]}
           : S \in SUBSET Ids}

\* what persistAgents writes for them
RestoreSnapshots ==
  {PersistAgents([i \in DOMAIN m |->
                    NewAgent(i, FALSE, m[i], ProjectDir, Basename(m[i]))])
     : m \in RestoreRegistries}

RestoreInit ==
  /\ files = [f \in Paths |-> [exists |-> FALSE, content |-> <<>>, age |-> 0]]
  /\ persisted \in RestoreSnapshots
  /\ agents = <<>>
  /\ nextAgentId = 1
  /\ activeAgentId = NoAgent
  /\ knownJsonlFiles = {}
  /\ projectScanTimer = FALSE
  /\ scanDir = NoDir
  /\ cleanupTimer = FALSE
  /\ disposed = FALSE
  /\ layoutWatcher = FALSE
  /\ assetTask = FALSE
  /\ fileWatchers = {}
  /\ pollingTimers = {}
  /\ jsonlPollTimers = {}
  /\ waitingTimers = {}
  /\ permissionTimers = {}
  /\ liveWatch = [i \in Ids |-> 0]
  /\ livePoll = [i \in Ids |-> 0]
  /\ liveJsonlPoll = {}
  /\ procs = {}
  /\ parsed = [i \in Ids |-> <<>>]
  /\ issued = {}
  /\ retired = {}
  /\ toolDoneTimers = [i \in Ids |-> 0]
  /\ liveWaiting = [i \in Ids |-> 0]
  /\ livePermission = [i \in Ids |-> 0]
  /\ out = <<>>
  /\ lastOp = NoRead
  /\ ClientInit
  /\ TerminalInit

RestoreOp == [op |-> "restore", id |-> 0, nop |-> FALSE]

\* the call of restoreAgents made by 'webviewReady', up to its return
RestoreCall(watchOk) ==
  /\ Commit(RestoreAgents(Cur, watchOk), RestoreOp)
  /\ UNCHANGED envVars

RestoreNext ==
  \/ \E f \in ProjectPaths : CreateFile(f)
  \/ \E b \in AsciiBytes : AppendByte(TailFile, b, RegistryContents)
  \/ Tick
  \/ RestoreCall(TRUE)
  \/ \E id \in Ids : WatchCallback(id)
  \/ \E id \in Ids : PollTick(id)

RestoreSpec == RestoreInit /\ [][RestoreNext]_vars

(***************************************************************************)
(* extension.ts: the editor-panel variant.  Its maps sessionIds,           *)
(* fileOffsets and lineBuffers are the keys and fields of agents, its      *)
(* watchTimers (the retry of tryStart) are jsonlPollTimers, its terminals  *)
(* are procs.  One agent has been opened and its transcript is awaited.    *)
(***************************************************************************)
\* the id of the one tool the records speak of
ToolId == "t1"

\* the texts of the records: a user record that carries one tool_result
\* block (tool_use_id t1), an assistant record with one tool_use block
\* (id t1), a user record whose content is a list of blocks without a
\* tool_result, a user record whose content is a string, a system
\* turn_duration record, and an assistant record with text only; every
\* other line is a record of another kind, or does not parse
ToolResultLine == <<"a">>
ToolUseLine == <<"a", "sp">>
PromptBlocksLine == <<"sp", "a">>
PromptTextLine == <<"a", "sp", "a">>
TurnDurationLine == <<"a", "a">>
TextLine == <<"a", "a", "a">>
PanelRecordLines == {ToolResultLine, ToolUseLine, PromptBlocksLine,
                     PromptTextLine}

\* processTranscriptLine of extension.ts
PanelProcessLine(s, id, line) ==
  IF line = ToolUseLine
  THEN [s EXCEPT !.agents[id].activeToolIds = @ \cup {ToolId},
                 !.out = Append(@, [type |-> "agentToolStart", id |-> id,
                                    toolId |-> ToolId])]
  ELSE IF line = ToolResultLine
  THEN [s EXCEPT !.agents[id].activeToolIds = @ \ {ToolId},
                 !.toolDoneTimers[id] = @ + 1]
  ELSE IF line = PromptBlocksLine
  THEN [s EXCEPT !.agents[id].activeToolIds = {},
                 !.out = Append(@, [type |-> "agentToolsClear", id |-> id])]
  ELSE s

\* processTranscriptLine over the lines of one read
RECURSIVE ProcessTranscriptLines(_, _, _)
ProcessTranscriptLines(s, id, recs) ==
  IF recs = <<>> THEN s
  ELSE ProcessTranscriptLines(PanelProcessLine(s, id, Head(recs).text), id,
                              Tail(recs))

\* readNewLines of extension.ts
PanelReadNewLines(s, id) ==
  LET s1 == ReadNewLines(s, id)
      n0 == Len(s.parsed[id])
      n1 == Len(s1.parsed[id])
  IN ProcessTranscriptLines(s1, id, SubSeq(s1.parsed[id], n0 + 1, n1))

\* tryStart, called back by its retry timeout
PanelTryStart(id, watchOk) ==
  /\ id \in liveJsonlPoll
  /\ IF id \notin DOMAIN agents
     THEN Commit([Cur EXCEPT !.liveJsonlPoll = @ \ {id}], NoRead)
     ELSE IF FileExists(agents[id].jsonlFile)
     THEN LET s1 == [Cur EXCEPT !.liveJsonlPoll = @ \ {id}]
              s2 == StartFileWatching(s1, id, agents[id].jsonlFile, watchOk)
          IN Commit(PanelReadNewLines(s2, id), NoRead)
     ELSE Commit(Cur, NoRead)
  /\ UNCHANGED envVars

\* the fs.watch callback of startWatchingTranscript
PanelWatchCallback(id) ==
  /\ liveWatch[id] > 0
  /\ Commit(PanelReadNewLines(Cur, id), Op("watch", id))
  /\ UNCHANGED envVars

\* the setInterval callback of startWatchingTranscript
PanelPollTick(id) ==
  /\ livePoll[id] > 0
  /\ IF id \notin DOMAIN agents
     THEN Commit([Cur EXCEPT !.livePoll[id] = @ - 1], NoRead)
     ELSE Commit(PanelReadNewLines(Cur, id), Op("poll", id))
  /\ UNCHANGED envVars

\* stopWatching
StopWatching(s, id) ==
  [s EXCEPT
     !.liveWatch[id] = IF id \in s.fileWatchers THEN @ - 1 ELSE @,
     !.fileWatchers = @ \ {id},
     !.livePoll[id] = IF id \in s.pollingTimers THEN @ - 1 ELSE @,
     !.pollingTimers = @ \ {id},
     !.liveJsonlPoll = IF id \in s.jsonlPollTimers THEN @ \ {id} ELSE @,
     !.jsonlPollTimers = @ \ {id},
     !.parsed[id] = <<>>,
     !.agents = MapDel(@, id)]

\* the onDidCloseTerminal listener, for the terminal of agent id
PanelCloseTerminal(id) ==
  /\ id \in procs
  /\ LET s1 == StopWatching([Cur EXCEPT !.procs = @ \ {id},
                                        !.terminals = MapDel(@, id)], id)
     IN Commit([s1 EXCEPT !.out = Append(@, [type |-> "agentClosed", id |-> id])],
               NoRead)
  /\ UNCHANGED envVars

\* the callback of the timeout set for a tool_result block
ToolDoneTimeout(id) ==
  /\ toolDoneTimers[id] > 0
  /\ Commit([Cur EXCEPT !.toolDoneTimers[id] = @ - 1,
                        !.out = Append(@, [type |-> "agentToolDone", id |-> id])],
            NoRead)
  /\ UNCHANGED envVars

PanelInit ==
  /\ files = [f \in Paths |-> [exists |-> FALSE, content |-> <<>>, age |-> 0]]
  /\ agents = (1 :> NewAgent(1, TRUE, TailFile, ProjectDir, "a"))
  /\ persisted = {}
  /\ nextAgentId = 2
  /\ activeAgentId = NoAgent
  /\ knownJsonlFiles = {}
  /\ projectScanTimer = FALSE
  /\ scanDir = NoDir
  /\ cleanupTimer = FALSE
  /\ disposed = FALSE
  /\ layoutWatcher = FALSE
  /\ assetTask = FALSE
  /\ fileWatchers = {}
  /\ pollingTimers = {}
  /\ jsonlPollTimers = {1}
  /\ waitingTimers = {}
  /\ permissionTimers = {}
  /\ liveWatch = [i \in Ids |-> 0]
  /\ livePoll = [i \in Ids |-> 0]
  /\ liveJsonlPoll = {1}
  /\ procs = {1}
  /\ parsed = [i \in Ids |-> <<>>]
  /\ issued = {1}
  /\ retired = {}
  /\ toolDoneTimers = [i \in Ids |-> 0]
  /\ liveWaiting = [i \in Ids |-> 0]
  /\ livePermission = [i \in Ids |-> 0]
  /\ out = <<[type |-> "agentCreated", id |-> 1]>>
  /\ lastOp = NoRead
  /\ ClientInit
  /\ terminals = (1 :> 1)
  /\ closedTerminals = {}
  /\ nextTerminal = 2
  /\ movedFrom = {}

PanelNext ==
  \/ CreateFile(TailFile)
  \/ \E b \in AsciiBytes :
        AppendByte(TailFile, b, BoundedSeq(AsciiBytes, MaxTailLen))
  \/ \E w \in BOOLEAN : PanelTryStart(1, w)
  \/ PanelWatchCallback(1)
  \/ PanelPollTick(1)
  \/ PanelCloseTerminal(1)
  \/ ToolDoneTimeout(1)

PanelSpec == PanelInit /\ [][PanelNext]_vars

(***************************************************************************)
(* A connection whose client focuses sessions while new conversations      *)
(* start log files in the project directory.                               *)
(***************************************************************************)
FocusNext ==
  \/ \E f \in PrimaryFiles : CreateFile(f)
  \/ Tick
  \/ \E order \in AttachListings : WebviewReady(order, TRUE)
  \/ \E order \in AttachListings : ScanTick(order, TRUE)
  \/ \E id \in Ids \cup {NoAgent} : SetActiveAgent(id)
  \/ \E id \in Ids : CloseAgent(id)

FocusSpec == Init /\ [][FocusNext]_vars

(***************************************************************************)
(* Handlers during which the write of agents.json fails: writeFileSync     *)
(* throws out of persistAgents, which catches nothing, and the exception   *)
(* unwinds the handler up to the try/catch of ws.on('message').  The file  *)
(* keeps what it held.                                                     *)
(***************************************************************************)
\* launchNewTerminal when persistAgentsFn() throws: the statements before
\* it have run, the ones after it (agentCreated, proc.onExit,
\* ensureProjectScan, the file-appearance poll) have not
LaunchNewTerminalWriteFails(f) ==
  /\ f \in PrimaryFiles
  /\ ~FileExists(f)
  /\ f \notin knownJsonlFiles
  /\ f \notin TrackedFiles(agents)
  /\ f \notin {p.jsonlFile : p \in persisted}
  /\ nextAgentId \in Ids
  /\ LET id == nextAgentId
     IN Commit([Cur EXCEPT
                  !.knownJsonlFiles = @ \cup {f},
                  !.nextAgentId = @ + 1,
                  !.agents = MapSet(@, id,
                     NewAgent(id, TRUE, f, ProjectDir, Basename(f))),
                  !.parsed[id] = <<>>,
                  !.activeAgentId = id],
               [op |-> "launchWriteFails", id |-> id, nop |-> FALSE])
  /\ UNCHANGED envVars

\* handleMessage, case 'closeAgent', when persistAgentsFn() throws at the
\* end of removeAgent: agentClosed is not posted
CloseAgentWriteFails(id) ==
  /\ id \in DOMAIN agents
  /\ Commit([RemoveAgent(Cur, id) EXCEPT !.persisted = persisted],
            [op |-> "closeWriteFails", id |-> id, nop |-> FALSE])
  /\ UNCHANGED envVars

WriteFaultNext ==
  \/ \E f \in PrimaryFiles : CreateFile(f)
  \/ \E f \in PrimaryFiles : LaunchNewTerminal(f)
  \/ \E f \in PrimaryFiles : LaunchNewTerminalWriteFails(f)
  \/ \E id \in Ids : JsonlPollTick(id, TRUE)
  \/ \E id \in Ids : PollTick(id)
  \/ \E id \in Ids : ProcessExit(id)
  \/ \E id \in Ids : CloseAgent(id)
  \/ \E id \in Ids : CloseAgentWriteFails(id)

WriteFaultSpec == Init /\ [][WriteFaultNext]_vars

(***************************************************************************)
(* The launched session of TailSpec over a log file that is unreadable     *)
(* from time to time.                                                      *)
(***************************************************************************)
ReadFaultNext ==
  \/ FileSize(TailFile) = 0 /\ CreateFile(TailFile)
  \/ \E b \in AsciiBytes :
        AppendByte(TailFile, b, BoundedSeq(AsciiBytes, MaxTailLen))
  \/ MakeUnreadable(TailFile)
  \/ MakeReadable(TailFile)
  \/ \E w \in BOOLEAN : JsonlPollTick(1, w)
  \/ WatchCallback(1)
  \/ PollTick(1)

ReadFaultSpec == TailInit /\ [][ReadFaultNext]_vars

(***************************************************************************)
(* A connection whose tracked log files are unreadable from time to time.  *)
(* Client-ready and scan ticks are taken while every tracked file is       *)
(* readable; reads and cleanup ticks at any time.                          *)
(***************************************************************************)
AllTrackedReadable == \A f \in TrackedFiles(agents) : FileExists(f)

StatFaultNext ==
  \/ \E f \in RegistryFiles : AllTrackedReadable /\ CreateFile(f)
  \/ Tick
  \/ \E f \in TrackedFiles(agents) : MakeUnreadable(f)
  \/ \E f \in TrackedFiles(agents) : MakeReadable(f)
  \/ \E order \in Listings : AllTrackedReadable /\ WebviewReady(order, TRUE)
  \/ \E order \in Listings : AllTrackedReadable /\ ScanTick(order, TRUE)
  \/ \E id \in Ids : WatchCallback(id)
  \/ \E id \in Ids : PollTick(id)
  \/ CleanupTick

StatFaultSpec == Init /\ [][StatFaultNext]_vars

(***************************************************************************)
(* A connection whose log files are created and then left alone while the  *)
(* cleanup interval (wsServer.ts, every 10 s) keeps firing.                *)
(***************************************************************************)
CleanupNext ==
  \/ \E f \in RegistryFiles : CreateFile(f)
  \/ Tick
  \/ \E order \in Listings : WebviewReady(order, TRUE)
  \/ \E order \in Listings : ScanTick(order, TRUE)
  \/ CleanupTick

\* setInterval fires the cleanup callback again and again
CleanupFairSpec == Init /\ [][CleanupNext]_vars /\ WF_vars(CleanupTick)

(***************************************************************************)
(* transcriptParser.ts of the server and the timeout callbacks of          *)
(* timerManager.ts: the records of a transcript and what each does to the  *)
(* session (sections 4.2 and 4.3 of the specification).                    *)
(***************************************************************************)
MaxRecords == 2     \* records written to the log file under TurnSpec

\* the records of a transcript the server tells apart
RecordLines == {ToolUseLine, ToolResultLine, PromptTextLine,
                TurnDurationLine, TextLine}

\* the transcripts of at most n records out of recs
RECURSIVE Transcripts(_, _)
Transcripts(recs, n) ==
  IF n = 0 THEN {<<>>}
  ELSE LET T == Transcripts(recs, n - 1)
       IN T \cup {t \o r \o <<"nl">> : t \in T, r \in recs}

\* the contents of a log file while one of the transcripts T is written
Prefixes(T) == UNION {{SubSeq(t, 1, k) : k \in 0..Len(t)} : t \in T}

\* the contents the log file goes through under TurnSpec, SnapshotSpec and
\* PanelTurnSpec
TurnContents == Prefixes(Transcripts(RecordLines, MaxRecords))
OneRecordContents == Prefixes(Transcripts(RecordLines, 1))
PanelContents == Prefixes(Transcripts(PanelRecordLines, MaxRecords))

\* a tool start that leaves the waiting flag as it is
ToolStartedKeepWaiting(s, id, t) ==
  StartPermissionTimer(
    [CancelWaitingTimer(s, id) EXCEPT
       !.agents[id].activeToolIds = @ \cup {t},
       !.agents[id].permissionSent = FALSE,
       !.agents[id].hadToolsInTurn = TRUE,
       !.out = Append(@, [type |-> "agentToolStart", id |-> id,
                          toolId |-> t])], id)

\* ToolStarted: the tool joins the in-flight set, the session is no longer
\* waiting, the waiting timeout is cancelled, the permission timeout armed
ToolStarted(s, id, t) ==
  StartPermissionTimer(
    [CancelWaitingTimer(s, id) EXCEPT
       !.agents[id].activeToolIds = @ \cup {t},
       !.agents[id].isWaiting = FALSE,
       !.agents[id].permissionSent = FALSE,
       !.agents[id].hadToolsInTurn = TRUE,
       !.out = Append(@, [type |-> "agentToolStart", id |-> id,
                          toolId |-> t])], id)

\* ToolFinished: the tool leaves the in-flight set and the notification is
\* delayed; a tool that is not in flight is ignored
ToolFinished(s, id, t) ==
  IF t \notin s.agents[id].activeToolIds THEN s
  ELSE [s EXCEPT !.agents[id].activeToolIds = @ \ {t},
                 !.toolDoneTimers[id] = @ + 1]

\* TurnRestarted: a new prompt clears the activity of the session
TurnRestarted(s, id) ==
  [ClearAgentActivity(CancelWaitingTimer(s, id), id) EXCEPT
     !.agents[id].hadToolsInTurn = FALSE]

\* a turn end that makes the session waiting whatever is in flight
TurnEndedAlways(s, id) ==
  [CancelWaitingTimer(s, id) EXCEPT
     !.agents[id].isWaiting = TRUE,
     !.agents[id].hadToolsInTurn = FALSE,
     !.out = Append(@, [type |-> "agentStatus", id |-> id,
                        status |-> "waiting"])]

\* TurnEnded: waiting at once when nothing is in flight, deferred otherwise
TurnEnded(s, id) ==
  IF s.agents[id].activeToolIds # {} THEN s
  ELSE [CancelWaitingTimer(s, id) EXCEPT
          !.agents[id].isWaiting = TRUE,
          !.agents[id].hadToolsInTurn = FALSE,
          !.out = Append(@, [type |-> "agentStatus", id |-> id,
                             status |-> "waiting"])]

\* a record without tool events: the waiting fallback is armed when nothing
\* is in flight
TextSeen(s, id) ==
  IF s.agents[id].activeToolIds # {} THEN s ELSE StartWaitingTimer(s, id)

\* processTranscriptLine of the server
ProcessTranscriptLine(s, id, line) ==
  IF line = ToolUseLine THEN ToolStarted(s, id, ToolId)
  ELSE IF line = ToolResultLine THEN ToolFinished(s, id, ToolId)
  ELSE IF line = PromptTextLine THEN TurnRestarted(s, id)
  ELSE IF line = TurnDurationLine THEN TurnEnded(s, id)
  ELSE IF line = TextLine THEN TextSeen(s, id)
  ELSE s

\* "for (const line of lines) processTranscriptLine(...)" of readNewLines
RECURSIVE ProcessLines(_, _, _)
ProcessLines(s, id, recs) ==
  IF recs = <<>> THEN s
  ELSE ProcessLines(ProcessTranscriptLine(s, id, Head(recs).text), id,
                    Tail(recs))

\* readNewLines with the records handed to processTranscriptLine
ReadAndProcess(s, id) ==
  LET s1 == ReadNewLines(s, id)
      n0 == Len(s.parsed[id])
      n1 == Len(s1.parsed[id])
  IN ProcessLines(s1, id, SubSeq(s1.parsed[id], n0 + 1, n1))

\* the fs.watch callback of startFileWatching
TurnWatchCallback(id) ==
  /\ liveWatch[id] > 0
  /\ Commit(ReadAndProcess(Cur, id), Op("watch", id))
  /\ UNCHANGED envVars

\* the setInterval callback of startFileWatching
TurnPollTick(id) ==
  /\ livePoll[id] > 0
  /\ IF id \notin DOMAIN agents
     THEN Commit([Cur EXCEPT !.livePoll[id] = @ - 1], NoRead)
     ELSE Commit(ReadAndProcess(Cur, id), Op("poll", id))
  /\ UNCHANGED envVars

\* the callback of the waiting-fallback timeout
WaitingTimeout(id) ==
  /\ liveWaiting[id] > 0
  /\ LET s1 == [Cur EXCEPT !.liveWaiting[id] = @ - 1,
                           !.waitingTimers = @ \ {id}]
     IN IF id \notin DOMAIN agents THEN Commit(s1, NoRead)
        ELSE Commit([s1 EXCEPT
                       !.agents[id].isWaiting = TRUE,
                       !.out = Append(@, [type |-> "agentStatus", id |-> id,
                                          status |-> "waiting"])],
                    [op |-> "waitingTimeout", id |-> id, nop |-> FALSE])
  /\ UNCHANGED envVars

\* the callback of the permission timeout
PermissionTimeout(id) ==
  /\ livePermission[id] > 0
  /\ LET s1 == [Cur EXCEPT !.livePermission[id] = @ - 1,
                           !.permissionTimers = @ \ {id}]
     IN IF id \in DOMAIN agents /\ agents[id].activeToolIds # {}
        THEN Commit([s1 EXCEPT
                       !.agents[id].permissionSent = TRUE,
                       !.out = Append(@, [type |-> "agentToolPermission",
                                          id |-> id])],
                    NoRead)
        ELSE Commit(s1, NoRead)
  /\ UNCHANGED envVars

\* the session of TailInit once its log file has appeared and is watched
TurnInit ==
  /\ files = [f \in Paths |->
                [exists |-> f = TailFile, content |-> <<>>, age |-> 0]]
  /\ agents = (1 :> NewAgent(1, TRUE, TailFile, ProjectDir, "a"))
  /\ persisted = PersistAgents(agents)
  /\ nextAgentId = 2
  /\ activeAgentId = 1
  /\ knownJsonlFiles = {TailFile}
  /\ projectScanTimer = TRUE
  /\ scanDir = ProjectDir
  /\ cleanupTimer = FALSE
  /\ disposed = FALSE
  /\ layoutWatcher = FALSE
  /\ assetTask = FALSE
  /\ fileWatchers = {1}
  /\ pollingTimers = {1}
  /\ jsonlPollTimers = {}
  /\ waitingTimers = {}
  /\ permissionTimers = {}
  /\ liveWatch = [i \in Ids |-> IF i = 1 THEN 1 ELSE 0]
  /\ livePoll = [i \in Ids |-> IF i = 1 THEN 1 ELSE 0]
  /\ liveJsonlPoll = {}
  /\ procs = {1}
  /\ parsed = [i \in Ids |-> <<>>]
  /\ issued = {1}
  /\ retired = {}
  /\ toolDoneTimers = [i \in Ids |-> 0]
  /\ liveWaiting = [i \in Ids |-> 0]
  /\ livePermission = [i \in Ids |-> 0]
  /\ out = <<>>
  /\ lastOp = NoRead
  /\ ClientInit
  /\ TerminalInit

TurnNext ==
  \/ \E b \in {"a", "sp", "nl"} : AppendByte(TailFile, b, TurnContents)
  \/ Tick
  \/ TurnWatchCallback(1)
  \/ TurnPollTick(1)
  \/ WaitingTimeout(1)
  \/ PermissionTimeout(1)
  \/ ToolDoneTimeout(1)
  \/ \E order \in Listings : WebviewReady(order, TRUE)

TurnSpec == TurnInit /\ [][TurnNext]_vars

(***************************************************************************)
(* The session of TurnSpec on a connection where a second log file comes   *)
(* to exist, so that client-ready has a second session to discover.        *)
(***************************************************************************)
SnapshotNext ==
  \/ \E b \in {"a", "sp", "nl"} : AppendByte(TailFile, b, OneRecordContents)
  \/ CreateFile(ResetFile)
  \/ Tick
  \/ TurnWatchCallback(1)
  \/ WaitingTimeout(1)
  \/ \E order \in AttachListings : WebviewReady(order, TRUE)

SnapshotSpec == TurnInit /\ [][SnapshotNext]_vars

(***************************************************************************)
(* extension.ts: the agent of PanelSpec while a transcript of tool_use,    *)
(* tool_result and user prompt records is written to its log file.         *)
(***************************************************************************)
PanelTurnNext ==
  \/ CreateFile(TailFile)
  \/ \E b \in {"a", "sp", "nl"} : AppendByte(TailFile, b, PanelContents)
  \/ \E w \in BOOLEAN : PanelTryStart(1, w)
  \/ PanelWatchCallback(1)
  \/ PanelPollTick(1)
  \/ ToolDoneTimeout(1)

PanelTurnSpec == PanelInit /\ [][PanelTurnNext]_vars

(***************************************************************************)
(* The launched session of TailSpec, reset to the log file of a new        *)
(* conversation before or after its own log file has appeared.             *)
(***************************************************************************)
ResetLaunchNext ==
  \/ \E f \in PrimaryFiles : CreateFile(f)
  \/ \E f \in PrimaryFiles : \E b \in AsciiBytes :
        AppendByte(f, b, RegistryContents)
  \/ JsonlPollTick(1, TRUE)
  \/ WatchCallback(1)
  \/ PollTick(1)
  \/ ReassignAgentToFile(1, ResetFile, TRUE)

ResetLaunchSpec == TailInit /\ [][ResetLaunchNext]_vars

(***************************************************************************)
(* A connection on which a log file can become unreadable between the      *)
(* statSync that tests its age and the statSync that precedes the attach   *)
(* of the tailer.                                                          *)
(***************************************************************************)
\* a scan tick that lists one file it does not know, f, fresh at the first
\* statSync (part_002:196) and unreadable at the second (part_002:225), which
\* throws into "catch { /* ignore */ }"
ScanTickStatFails(f) ==
  /\ projectScanTimer
  /\ FileExists(f)
  /\ DirOf(f) = scanDir
  /\ ~KnownHas(knownJsonlFiles, f)
  /\ \A g \in Paths \ {f} :
       (FileExists(g) /\ DirOf(g) = scanDir) => KnownHas(knownJsonlFiles, g)
  /\ ~(FileAge(f) > ACTIVE_THRESHOLD_MS)
  /\ nextAgentId \in Ids
  /\ Commit(Persist(CreateDiscovered(
              [Cur EXCEPT !.knownJsonlFiles = @ \cup {f}], f)),
            [op |-> "scan", id |-> 0, nop |-> FALSE])
  /\ files' = [files EXCEPT ![f].exists = FALSE]

AttachFaultNext ==
  \/ \E f \in RegistryFiles : CreateFile(f)
  \/ Tick
  \/ \E f \in RegistryFiles : MakeReadable(f)
  \/ \E order \in Listings : WebviewReady(order, TRUE)
  \/ \E order \in Listings : \E w \in BOOLEAN : ScanTick(order, w)
  \/ \E f \in RegistryFiles : ScanTickStatFails(f)
  \/ \E f \in RegistryFiles : LaunchNewTerminal(f)
  \/ \E id \in Ids : \E w \in BOOLEAN : JsonlPollTick(id, w)
  \/ \E id \in Ids : WatchCallback(id)
  \/ \E id \in Ids : PollTick(id)
  \/ \E id \in Ids : CloseAgent(id)

AttachFaultSpec == Init /\ [][AttachFaultNext]_vars

(***************************************************************************)
(* A new connection of a server whose agents.json (one file in the home    *)
(* directory, whatever the workspace) can hold a session that a server     *)
(* run for another workspace left there.                                   *)
(***************************************************************************)
TwoDirSnapshots ==
  {PersistAgents(m) : m \in
     { <<>>,
       (1 :> NewAgent(1, FALSE, "other/c.jsonl", OtherDir, "c")) }}

TwoDirInit ==
  /\ files = [f \in Paths |-> [exists |-> FALSE, content |-> <<>>, age |-> 0]]
  /\ persisted \in TwoDirSnapshots
  /\ agents = <<>>
  /\ nextAgentId = 1
  /\ activeAgentId = NoAgent
  /\ knownJsonlFiles = {}
  /\ projectScanTimer = FALSE
  /\ scanDir = NoDir
  /\ cleanupTimer = FALSE
  /\ disposed = FALSE
  /\ layoutWatcher = FALSE
  /\ assetTask = FALSE
  /\ fileWatchers = {}
  /\ pollingTimers = {}
  /\ jsonlPollTimers = {}
  /\ waitingTimers = {}
  /\ permissionTimers = {}
  /\ liveWatch = [i \in Ids |-> 0]
  /\ livePoll = [i \in Ids |-> 0]
  /\ liveJsonlPoll = {}
  /\ procs = {}
  /\ parsed = [i \in Ids |-> <<>>]
  /\ issued = {}
  /\ retired = {}
  /\ toolDoneTimers = [i \in Ids |-> 0]
  /\ liveWaiting = [i \in Ids |-> 0]
  /\ livePermission = [i \in Ids |-> 0]
  /\ out = <<>>
  /\ lastOp = NoRead
  /\ ClientInit
  /\ TerminalInit

TwoDirFiles == {"proj/a.jsonl", "other/c.jsonl"}
TwoDirListings == {<<"proj/a.jsonl", "other/c.jsonl">>}

TwoDirNext ==
  \/ \E f \in TwoDirFiles : CreateFile(f)
  \/ Tick
  \/ \E order \in TwoDirListings : WebviewReady(order, TRUE)
  \/ \E order \in TwoDirListings : ScanTick(order, TRUE)
  \/ \E f \in PrimaryFiles : LaunchNewTerminal(f)
  \/ \E id \in Ids : JsonlPollTick(id, TRUE)
  \/ \E id \in Ids : PollTick(id)
  \/ \E id \in Ids : CloseAgent(id)

TwoDirSpec == TwoDirInit /\ [][TwoDirNext]_vars

(***************************************************************************)
(* wsServer.ts: the end of a connection.  dispose() is called by the       *)
(* 'close' event of the socket, after which no message is handled; the     *)
(* asset-loading task that 'webviewReady' started runs on at its awaits.   *)
(***************************************************************************)
\* startLayoutWatcher
StartLayoutWatcher(s) ==
  IF s.layoutWatcher THEN s ELSE [s EXCEPT !.layoutWatcher = TRUE]

\* sendLayout; the bridge drops what is posted once the socket is closed
SendLayout(s) ==
  IF s.disposed THEN s
  ELSE [s EXCEPT !.out = Append(@, [type |-> "layoutLoaded"])]

\* the asset-loading task from its last await to its end; more tells
\* whether the task of another 'webviewReady' is still suspended
AssetTaskEnds ==
  /\ assetTask
  /\ \E more \in BOOLEAN :
       Commit(StartLayoutWatcher(SendLayout([Cur EXCEPT !.assetTask = more])),
              NoRead)
  /\ UNCHANGED envVars

\* "for (const id of [...this.agents.keys()]) removeAgent(id, ...)"
RECURSIVE RemoveAll(_, _)
RemoveAll(s, ids) ==
  IF ids = <<>> THEN s ELSE RemoveAll(RemoveAgent(s, Head(ids)), Tail(ids))

\* dispose
Dispose ==
  /\ IF disposed THEN Commit(Cur, [op |-> "dispose", id |-> 0, nop |-> TRUE])
     ELSE LET s1 == [Cur EXCEPT !.disposed = TRUE, !.layoutWatcher = FALSE]
              s2 == RemoveAll(s1, SortIds(DOMAIN s1.agents))
          IN Commit([s2 EXCEPT !.projectScanTimer = FALSE,
                               !.scanDir = NoDir,
                               !.cleanupTimer = FALSE],
                    [op |-> "dispose", id |-> 0, nop |-> FALSE])
  /\ UNCHANGED envVars

DisposeNext ==
  \/ \E f \in RegistryFiles : CreateFile(f)
  \/ Tick
  \/ \E order \in Listings : ~disposed /\ WebviewReady(order, TRUE)
  \/ \E f \in RegistryFiles : ~disposed /\ LaunchNewTerminal(f)
  \/ \E order \in Listings : ScanTick(order, TRUE)
  \/ \E id \in Ids : JsonlPollTick(id, TRUE)
  \/ \E id \in Ids : WatchCallback(id)
  \/ \E id \in Ids : PollTick(id)
  \/ \E id \in Ids : ProcessExit(id)
  \/ CleanupTick
  \/ AssetTaskEnds
  \/ Dispose

DisposeSpec == Init /\ [][DisposeNext]_vars

(***************************************************************************)
(* The browser client's transport (wsClient.ts).  main.tsx calls           *)
(* connectWebSocket once when the page loads; afterwards it is called only *)
(* by the timer that the onclose handler of the previous socket sets, so   *)
(* at any time there is one socket, the one the module variable ws refers  *)
(* to.                                                                     *)
(***************************************************************************)
MaxPosts == 3       \* calls of vscode.postMessage
MaxSockets == 3     \* WebSocket objects created

\* ws.send(JSON.stringify(msg)) for every msg of pending, in the array's order
SendAll(w, p, sock) ==
  w \o [i \in 1..Len(p) |-> [msg |-> p[i], sock |-> sock, queued |-> TRUE]]

ClearPendingNot(p) == p

\* pending.length = 0
ClearPending(p) == <<>>

\* vscode.postMessage(msg)
PostMessage ==
  /\ posted < MaxPosts
  /\ posted' = posted + 1
  /\ IF wsReadyState = "OPEN"
       THEN /\ wire' = Append(wire, [msg |-> posted + 1, sock |-> sockets,
                                     queued |-> FALSE])
            /\ UNCHANGED pending
       ELSE /\ pending' = Append(pending, posted + 1)
            /\ UNCHANGED wire
  /\ UNCHANGED <<wsReadyState, reconnectTimer, sockets, serverVars>>

\* the connection is established: readyState becomes OPEN and ws.onopen runs
WsOpen ==
  /\ wsReadyState = "CONNECTING"
  /\ wsReadyState' = "OPEN"
  /\ wire' = SendAll(wire, pending, sockets)
  /\ pending' = ClearPending(pending)
  /\ UNCHANGED <<reconnectTimer, posted, sockets, serverVars>>

\* the closing handshake starts; the close event has not been fired yet
WsClosing ==
  /\ wsReadyState = "OPEN"
  /\ wsReadyState' = "CLOSING"
  /\ UNCHANGED <<pending, reconnectTimer, posted, sockets, wire, serverVars>>

\* the connection fails or ends: readyState becomes CLOSED and ws.onclose
\* runs, setTimeout(connectWebSocket, 2000)
WsClose ==
  /\ wsReadyState \in {"CONNECTING", "OPEN", "CLOSING"}
  /\ wsReadyState' = "CLOSED"
  /\ reconnectTimer' = TRUE
  /\ UNCHANGED <<pending, posted, sockets, wire, serverVars>>

\* the timer fires: connectWebSocket() makes a new socket
ConnectWebSocket ==
  /\ reconnectTimer
  /\ sockets < MaxSockets
  /\ reconnectTimer' = FALSE
  /\ sockets' = sockets + 1
  /\ wsReadyState' = "CONNECTING"
  /\ UNCHANGED <<pending, posted, wire, serverVars>>

WsNext ==
  \/ PostMessage
  \/ WsOpen
  \/ WsClosing
  \/ WsClose
  \/ ConnectWebSocket

WsSpec == Init /\ [][WsNext]_vars

(***************************************************************************)
(* The editor-panel variant: moving an agent to another folder.  The       *)
(* terminal of the agent is disposed of and a new one is made under the    *)
(* same id; the close event of a terminal is delivered to the              *)
(* onDidCloseTerminal listener some time after the terminal was closed.    *)
(***************************************************************************)
MaxTerminals == 3   \* terminal objects created
MaxMoveLen == 2     \* bytes of a log file under MoveSpec

\* the set movingAgents whenever a listener starts: handleMoveAgent adds the
\* id and deletes it again before it returns
movingAgents == {}

\* createClaudeTerminal with a new session whose log is f: the terminal made
\* is s.nextTerminal; startWatchingTranscript resets the cursor and, since
\* the log of a session id just drawn does not exist, tryStart(30) sets its
\* retry timeout
CreateClaudeTerminal(s, id, f) ==
  [s EXCEPT !.nextTerminal = @ + 1,
            !.agents = MapSet(@, id, NewAgent(id, TRUE, f, ProjectDir,
                                              Basename(f))),
            !.parsed[id] = <<>>,
            !.jsonlPollTimers = @ \cup {id},
            !.liveJsonlPoll = @ \cup {id}]

RegisterTerminalNot(s, id, t) == s

\* this.terminals.set(id, terminal)
RegisterTerminal(s, id, t) ==
  [s EXCEPT !.terminals = MapSet(@, id, t), !.procs = @ \cup {id}]

\* handleMoveAgent(id, ...), the new session's log being f
HandleMoveAgent(id, f) ==
  /\ ~FileExists(f)
  /\ id \in DOMAIN agents => agents[id].jsonlFile # f
  /\ nextTerminal <= MaxTerminals
  /\ IF id \notin DOMAIN terminals
     THEN Commit(Cur, NoRead)
     ELSE LET old == terminals[id]
              s1 == StopWatching(Cur, id)
              s2 == [s1 EXCEPT !.closedTerminals = @ \cup {old},
                               !.movedFrom = @ \cup {old}]
              s3 == CreateClaudeTerminal(s2, id, f)
              s4 == RegisterTerminal(s3, id, s2.nextTerminal)
          IN Commit([s4 EXCEPT !.out = Append(@, [type |-> "agentMoved",
                                                  id |-> id])],
                    [op |-> "move", id |-> id, nop |-> FALSE])
  /\ UNCHANGED envVars

\* the terminal of agent id is closed by the user or its shell exits
TerminalExits(id) ==
  /\ id \in DOMAIN terminals
  /\ terminals[id] \notin closedTerminals
  /\ Commit([Cur EXCEPT !.closedTerminals = @ \cup {terminals[id]}], NoRead)
  /\ UNCHANGED envVars

\* the onDidCloseTerminal listener, called with the terminal object t
OnDidCloseTerminal(t) ==
  /\ t \in closedTerminals
  /\ LET s0 == [Cur EXCEPT !.closedTerminals = @ \ {t}]
         hit == {id \in DOMAIN terminals : terminals[id] = t}
     IN IF hit = {} \/ hit \subseteq movingAgents
        THEN Commit(s0, NoRead)
        ELSE LET id == CHOOSE i \in hit : TRUE
                 s1 == StopWatching([s0 EXCEPT !.procs = @ \ {id},
                                               !.terminals = MapDel(@, id)],
                                    id)
             IN Commit([s1 EXCEPT !.out = Append(@, [type |-> "agentClosed",
                                                     id |-> id])],
                       NoRead)
  /\ UNCHANGED envVars

MoveNext ==
  \/ \E f \in PrimaryFiles : CreateFile(f)
  \/ \E b \in AsciiBytes :
        /\ 1 \in DOMAIN agents
        /\ AppendByte(agents[1].jsonlFile, b,
                      BoundedSeq(AsciiBytes, MaxMoveLen))
  \/ \E w \in BOOLEAN : PanelTryStart(1, w)
  \/ PanelWatchCallback(1)
  \/ PanelPollTick(1)
  \/ \E f \in PrimaryFiles : HandleMoveAgent(1, f)
  \/ TerminalExits(1)
  \/ \E t \in 1..MaxTerminals : OnDidCloseTerminal(t)

MoveSpec == PanelInit /\ [][MoveNext]_vars

(***************************************************************************)
(* What the claims speak of.                                               *)
(***************************************************************************)
\* the position of the last newline among the first upto bytes (0: none)
LastNl(content, upto) ==
  LET S == {p \in 1..upto : content[p] = "nl"}
  IN IF S = {} THEN 0 ELSE CHOOSE m \in S : \A x \in S : x <= m

\* the bytes of the line terminated by the newline at position end
LineBytes(content, end) ==
  SubSeq(content, LastNl(content, end - 1) + 1, end - 1)

\* the positions of the newlines that end a non-blank line, among the first
\* upto bytes, in file order
CompleteLineEnds(content, upto) ==
  SelectSeq(NlPositions(content, 0, upto),
            LAMBDA p : ~IsBlank(LineBytes(content, p)))

\* the complete non-blank lines among the first upto bytes, as text
CompleteLines(content, upto) ==
  SelectSeq(Front(Split(Decode(SubSeq(content, 1, upto)))),
            LAMBDA l : ~IsBlank(l))

ParsedTexts(id) == [i \in 1..Len(parsed[id]) |-> parsed[id][i].text]
ParsedEnds(id) == [i \in 1..Len(parsed[id]) |-> parsed[id][i].end]

\* C1: no two tracked sessions have the same log path.
C1_DistinctLogPaths ==
  \A i \in DOMAIN agents : \A j \in DOMAIN agents :
    i # j => agents[i].jsonlFile # agents[j].jsonlFile

\* two sessions are tracked after client-ready was handled
C1_Witness ==
  /\ cleanupTimer
  /\ Cardinality(DOMAIN agents) >= 2

\* C2: for a session attached at offset 0, the lines handed to the parser
\* are the complete non-blank lines of the file read so far, in order, each
\* once and whole; only the trailing fragment is withheld.
C2_ParsedAreTheFileLines ==
  \A id \in DOMAIN agents :
    FileExists(agents[id].jsonlFile) =>
      ParsedTexts(id) = CompleteLines(files[agents[id].jsonlFile].content,
                                      agents[id].fileOffset)

\* C3: every string handed to the parser is one whole line of the log file,
\* also for a session attached at the end of a file whose last line is
\* not terminated yet.
C3_OnlyWholeLines ==
  \A id \in DOMAIN agents : \A i \in 1..Len(parsed[id]) :
    parsed[id][i].text =
      Decode(LineBytes(files[parsed[id][i].file].content, parsed[id][i].end))

C5_BufferIsThePendingBytes ==
  \A id \in DOMAIN agents :
    LET a == agents[id]
        content == files[a.jsonlFile].content
    IN /\ \A i \in 1..Len(a.lineBuffer) : a.lineBuffer[i] # "nl"
       /\ FileExists(a.jsonlFile) =>
            a.lineBuffer =
              Decode(SubSeq(content, LastNl(content, a.fileOffset) + 1,
                            a.fileOffset))

\* C6: a read that finds the file no larger than the recorded offset
\* changes nothing of the session or its timers, hands nothing to the
\* parser and posts nothing.
C6_NoNewBytesChangesNothing ==
  [][lastOp'.nop =>
       /\ agents' = agents
       /\ parsed' = parsed
       /\ waitingTimers' = waitingTimers
       /\ permissionTimers' = permissionTimers
       /\ persisted' = persisted
       /\ out' = <<>>]_vars

\* a read found no new bytes while a fragment was pending
C6_Witness ==
  /\ lastOp.nop
  /\ lastOp.id \in DOMAIN agents
  /\ agents[lastOp.id].lineBuffer # <<>>
  /\ parsed[lastOp.id] # <<>>

\* C7: however watch callbacks, poll ticks and appends interleave, the lines
\* processed are the complete non-blank lines within the offset, each once,
\* in file order.
C7_EachLineOnceInOrder ==
  \A id \in DOMAIN agents :
    FileExists(agents[id].jsonlFile) =>
      ParsedEnds(id) = CompleteLineEnds(files[agents[id].jsonlFile].content,
                                        agents[id].fileOffset)

\* with a watcher and a poll both live, two lines were processed and a poll
\* tick then found nothing left to read
C7_Witness ==
  /\ liveWatch[1] > 0
  /\ livePoll[1] > 0
  /\ lastOp.op = "poll"
  /\ lastOp.nop
  /\ Len(parsed[1]) >= 2

\* C8: while the backup poll of a session runs, every complete non-blank
\* line of its log (the line ending at position p, for every p) is
\* eventually handed to the parser, whatever becomes of the change
\* notifications.
C8_EveryLineEventuallyParsed ==
  \A p \in 1..MaxTailLen :
    (/\ livePoll[1] > 0
     /\ p <= FileSize(TailFile)
     /\ files[TailFile].content[p] = "nl"
     /\ ~IsBlank(LineBytes(files[TailFile].content, p)))
      ~> (\E i \in 1..Len(parsed[1]) : parsed[1][i].end = p)

\* with no watcher, a poll tick ran and lines have been handed over
C8_Witness ==
  /\ liveWatch[1] = 0
  /\ livePoll[1] > 0
  /\ lastOp.op = "poll"
  /\ Len(parsed[1]) >= 1
  /\ agents[1].fileOffset = FileSize(TailFile)

C10_SnapshotListsTheSessions ==
  [][DOMAIN agents' # DOMAIN agents =>
       persisted' = PersistAgents(agents')]_vars

\* sessions were created and one removed, and the snapshot lists the rest
C10_Witness ==
  /\ retired # {}
  /\ DOMAIN agents # {}
  /\ persisted = PersistAgents(agents)
  /\ out # <<>>
  /\ out[Len(out)].type = "agentClosed"

\* the entries of agents.json that restoreAgents is to bring back: the log
\* file exists and was modified within the last hour
SurvivingEntries ==
  {p \in persisted :
     FileExists(p.jsonlFile) /\ FileAge(p.jsonlFile) <= ONE_HOUR_MS}

C12_RestoreSkipsToEndAndPrunes ==
  [][lastOp'.op = "restore" =>
       /\ \A p \in SurvivingEntries :
            /\ agents'[p.id].fileOffset = FileSize(p.jsonlFile)
            /\ agents'[p.id].lineBuffer = <<>>
            /\ parsed'[p.id] = <<>>
       /\ persisted' = SurvivingEntries]_vars

\* C13: agents.json never holds an entry for a sub-session, that is, for a
\* log file under a subagents directory, whatever discovery, scan, cleanup
\* and close operations have run.
C13_NoSubSessionPersisted ==
  \A p \in persisted : ~IsSubagent(p.jsonlFile)

\* message m carries the id of session id
Carries(m, id) == "id" \in DOMAIN m /\ m.id = id

\* C14: once a session has been removed, no callback that was scheduled for
\* it (file watcher, backup poll, file-appearance retry, delayed tool-done
\* timeout) hands one of its lines to the parser, brings it back, or posts a
\* message that carries its id.
C14_NothingAfterRemoval ==
  [][\A id \in retired \ DOMAIN agents :
       /\ id \notin DOMAIN agents'
       /\ parsed'[id] = parsed[id]
       /\ \A k \in 1..Len(out') : ~Carries(out'[k], id)]_vars

\* C15: every tracked session has at most one open file watcher and at most
\* one running backup poll, also after the client has sent 'webviewReady'
\* again on a populated registry.
C15_OneWatcherOnePoll ==
  \A id \in DOMAIN agents : liveWatch[id] <= 1 /\ livePoll[id] <= 1

\* the log files of the project directory that a scan tick has not seen yet
UnseenFiles == {f \in PrimaryFiles : FileExists(f) /\ f \notin knownJsonlFiles}

\* C16: when a log file that has not been seen appears in the directory of
\* the focused tracked session, the next scan tick re-targets that session
\* to the new file, and the number of tracked sessions does not grow.
C16_ScanRetargetsFocusedSession ==
  [][(/\ lastOp'.op = "scan"
      /\ activeAgentId \in DOMAIN agents
      /\ UnseenFiles # {}) =>
       /\ Cardinality(DOMAIN agents') <= Cardinality(DOMAIN agents)
       /\ activeAgentId \in DOMAIN agents'
       /\ agents'[activeAgentId].jsonlFile \in UnseenFiles]_vars

\* the number of closed notifications for id among the messages msgs
ClosedCount(msgs, id) ==
  Cardinality({k \in 1..Len(msgs) :
                 msgs[k].type = "agentClosed" /\ msgs[k].id = id})

\* C17: a handler posts a closed notification for a session exactly when it
\* removes that session, and then exactly one, with the session's watcher,
\* polls and timers cancelled; so a session closed by the client, by the
\* exit of its process, or by both in sequence is announced closed once.
C17_ClosedExactlyOnce ==
  [][\A id \in Ids :
       IF id \in DOMAIN agents /\ id \notin DOMAIN agents'
       THEN /\ ClosedCount(out', id) = 1
            /\ id \notin fileWatchers' \cup pollingTimers' \cup jsonlPollTimers'
            /\ id \notin waitingTimers' \cup permissionTimers'
       ELSE ClosedCount(out', id) = 0]_vars

\* C18: when the write of agents.json fails while a session is created or
\* removed, the registry still reflects the creation or removal, the handler
\* carries out its remaining steps (the client is told, the scan timer and
\* the file-appearance poll are installed), and every write that succeeds
\* leaves agents.json equal to the registry.
C18_WriteFailureContained ==
  [][/\ lastOp'.op = "closeWriteFails" =>
          /\ lastOp'.id \notin DOMAIN agents'
          /\ ClosedCount(out', lastOp'.id) = 1
     /\ lastOp'.op = "launchWriteFails" =>
          /\ lastOp'.id \in DOMAIN agents'
          /\ \E k \in 1..Len(out') :
               out'[k] = [type |-> "agentCreated", id |-> lastOp'.id]
          /\ projectScanTimer'
          /\ lastOp'.id \in jsonlPollTimers'
     /\ persisted' # persisted => persisted' = PersistAgents(agents')]_vars

\* C19: a read whose stat, open or read fails leaves the session's offset
\* and pending fragment (and everything else) as they were, the session
\* tracked and its backup poll running; the lines handed to the parser are
\* at all times the complete lines within the offset, so a later read that
\* succeeds delivers exactly the lines the failed one would have.
C19_FailedReadChangesNothing ==
  /\ [](\A id \in DOMAIN agents :
          ParsedTexts(id) = CompleteLines(files[agents[id].jsonlFile].content,
                                          agents[id].fileOffset))
  /\ [][lastOp'.op = "readFails" =>
          /\ agents' = agents
          /\ parsed' = parsed
          /\ pollingTimers' = pollingTimers
          /\ livePoll' = livePoll
          /\ lastOp'.id \in pollingTimers'
          /\ out' = <<>>]_vars

\* a read has failed while a complete line was waiting to be read and a
\* fragment was pending
C19_Witness ==
  /\ lastOp.op = "readFails"
  /\ lastOp.id \in DOMAIN agents
  /\ livePoll[lastOp.id] > 0
  /\ agents[lastOp.id].lineBuffer # <<>>
  /\ Len(CompleteLines(files[TailFile].content, FileSize(TailFile)))
       > Len(parsed[lastOp.id])

\* C20: a stat that fails is never escalated: whatever operation runs while
\* the log file of a tracked session cannot be stat'ed (a read of the
\* tailer, a discovery, a cleanup tick), it leaves that session tracked and
\* as it was.
C20_StatFailureNeverEscalated ==
  [][\A id \in DOMAIN agents :
       ~FileExists(agents[id].jsonlFile) =>
         /\ id \in DOMAIN agents'
         /\ agents'[id] = agents[id]]_vars

\* C21: after each cleanup tick every sub-session whose log file was last
\* modified longer ago than the sub-session threshold is gone from the
\* registry, with no watcher, poll or timer left for it and exactly one
\* closed notification posted, and every sub-session modified within the
\* threshold is still tracked.
C21_CleanupRemovesStaleSubSessions ==
  [][lastOp'.op = "cleanup" =>
       \A id \in DOMAIN agents :
         IsSubagent(agents[id].jsonlFile) =>
           IF FileAge(agents[id].jsonlFile) > SUBAGENT_STALE_MS
           THEN /\ id \notin DOMAIN agents'
                /\ ClosedCount(out', id) = 1
                /\ id \notin fileWatchers' \cup pollingTimers'
                /\ id \notin waitingTimers' \cup permissionTimers'
                /\ liveWatch'[id] = 0
                /\ livePoll'[id] = 0
           ELSE /\ id \in DOMAIN agents'
                /\ ClosedCount(out', id) = 0]_vars

\* C22: a primary session rebuilt from disk (no process of its own) whose
\* log file is no longer written and has passed every staleness window is
\* eventually removed once the cleanup interval runs, and no step of the
\* cleanup interval removes a primary session whose file is within the
\* window.
C22_StalePrimaryEventuallyRemoved ==
  /\ \A id \in Ids :
       (/\ cleanupTimer
        /\ id \in DOMAIN agents
        /\ ~agents[id].processRef
        /\ ~IsSubagent(agents[id].jsonlFile)
        /\ FileAge(agents[id].jsonlFile) = MaxAge)
         ~> (id \notin DOMAIN agents)
  /\ [][\A id \in DOMAIN agents :
          (/\ ~IsSubagent(agents[id].jsonlFile)
           /\ FileExists(agents[id].jsonlFile)
           /\ FileAge(agents[id].jsonlFile) <= ACTIVE_THRESHOLD_MS)
            => id \in DOMAIN agents']_vars

\* C23: no step gives a session without a process, other than one listed in
\* agents.json, to a primary log file last modified longer ago than the
\* 5 minute threshold, nor to a sub-session log file last modified longer
\* ago than the 30 second threshold.
C23_NoSessionForOldLog ==
  [][\A id \in DOMAIN agents' \ DOMAIN agents :
       (/\ ~agents'[id].processRef
        /\ id \notin {p.id : p \in persisted})
         => FileAge(agents'[id].jsonlFile) <=
              IF IsSubagent(agents'[id].jsonlFile)
              THEN SUBAGENT_STALE_MS ELSE ACTIVE_THRESHOLD_MS]_vars

\* the messages of a handler's output that follow the existingAgents
\* message (none when there is no such message)
AfterSnapshot(msgs) ==
  LET ks == {k \in 1..Len(msgs) : msgs[k].type = "existingAgents"}
  IN IF ks = {} THEN <<>>
     ELSE SubSeq(msgs, (CHOOSE k \in ks : TRUE) + 1, Len(msgs))

\* the number of messages of the given type for session id
TypeCount(msgs, type, id) ==
  Cardinality({k \in 1..Len(msgs) : msgs[k].type = type /\ Carries(msgs[k], id)})

\* C24: a session that is waiting has no tool in flight, and the statuses
\* sent after the session list on client-ready never hold both a tool start
\* and a waiting status for one session.
C24_WaitingExcludesTools ==
  /\ \A id \in DOMAIN agents :
       agents[id].isWaiting => agents[id].activeToolIds = {}
  /\ \A id \in Ids :
       ~(/\ TypeCount(AfterSnapshot(out), "agentToolStart", id) > 0
         /\ TypeCount(AfterSnapshot(out), "agentStatus", id) > 0)

\* a session that was waiting when a tool started is sent on client-ready
\* as running the tool
C24_Witness ==
  /\ 1 \in DOMAIN agents
  /\ Len(parsed[1]) = 2
  /\ parsed[1][1].text = TurnDurationLine
  /\ parsed[1][2].text = ToolUseLine
  /\ TypeCount(AfterSnapshot(out), "agentToolStart", 1) = 1

\* the step handed exactly one record to the parser for session id, with
\* the given text
Delivered(id, text) ==
  /\ Len(parsed'[id]) = Len(parsed[id]) + 1
  /\ SubSeq(parsed'[id], 1, Len(parsed[id])) = parsed[id]
  /\ parsed'[id][Len(parsed'[id])].text = text

\* C25: a read that delivers a turn-completion record to a session with
\* nothing in flight makes the session waiting in that step and posts
\* exactly one waiting status; with a tool in flight it posts none and the
\* session is not waiting, and no step that delivers at most one record
\* posts a waiting status while the tool stays in flight.
C25_TurnEndWaitsOrDefers ==
  [][\A id \in DOMAIN agents \cap DOMAIN agents' :
       /\ Delivered(id, TurnDurationLine) =>
            IF agents[id].activeToolIds = {}
            THEN /\ agents'[id].isWaiting
                 /\ TypeCount(out', "agentStatus", id) = 1
            ELSE /\ ~agents'[id].isWaiting
                 /\ TypeCount(out', "agentStatus", id) = 0
       /\ (/\ agents[id].activeToolIds # {}
           /\ agents'[id].activeToolIds # {}
           /\ Len(parsed'[id]) <= Len(parsed[id]) + 1)
            => TypeCount(out', "agentStatus", id) = 0]_vars

\* a turn-completion record has made a session with nothing in flight
\* waiting, with one waiting status posted
C25_Witness ==
  /\ 1 \in DOMAIN agents
  /\ Len(parsed[1]) = 1
  /\ parsed[1][1].text = TurnDurationLine
  /\ agents[1].isWaiting
  /\ out = <<[type |-> "agentStatus", id |-> 1, status |-> "waiting"]>>

\* C26: the messages posted on client-ready hold one session list, with
\* exactly the ids of the tracked sessions in ascending order, followed for
\* each session by one tool start per tool in flight and by one waiting
\* status if the session is waiting and none otherwise, and by nothing else.
C26_SnapshotListsSessionsAndStatuses ==
  \A k \in 1..Len(out) :
    out[k].type = "existingAgents" =>
      LET ids == out[k].agents
          rest == SubSeq(out, k + 1, Len(out))
      IN /\ {ids[i] : i \in 1..Len(ids)} = DOMAIN agents
         /\ \A i, j \in 1..Len(ids) : i < j => ids[i] < ids[j]
         /\ \A id \in DOMAIN agents :
              /\ \A t \in agents[id].activeToolIds :
                   Cardinality({i \in 1..Len(rest) :
                      /\ rest[i].type = "agentToolStart"
                      /\ rest[i].id = id
                      /\ rest[i].toolId = t}) = 1
              /\ TypeCount(rest, "agentToolStart", id)
                   = Cardinality(agents[id].activeToolIds)
              /\ TypeCount(rest, "agentStatus", id)
                   = IF agents[id].isWaiting THEN 1 ELSE 0
         /\ \A i \in 1..Len(rest) :
              /\ rest[i].type \in {"agentToolStart", "agentStatus"}
              /\ rest[i].id \in DOMAIN agents

\* client-ready has listed two sessions, the first of them waiting
C26_Witness ==
  /\ DOMAIN agents = {1, 2}
  /\ agents[1].isWaiting
  /\ \E k \in 1..Len(out) :
       /\ out[k].type = "existingAgents"
       /\ out[k].agents = <<1, 2>>
       /\ Len(out) = k + 1
       /\ out[k + 1] = [type |-> "agentStatus", id |-> 1, status |-> "waiting"]

\* C27: a read that hands at least one line to the parser leaves the
\* session's permission flag false, posts a permission-clear notification,
\* ahead of anything the lines cause, exactly when the flag was set, and
\* leaves no waiting or permission timeout pending other than one armed by
\* the lines themselves; a read that delivers only an unterminated fragment
\* leaves the timeouts and the flag as they were and posts nothing.
C27_NewDataCancelsTimers ==
  [][\A id \in DOMAIN agents \cap DOMAIN agents' :
       LET n0 == Len(parsed[id])
           n1 == Len(parsed'[id])
       IN /\ (n1 > n0 /\ SubSeq(parsed'[id], 1, n0) = parsed[id]) =>
               /\ ~agents'[id].permissionSent
               /\ TypeCount(out', "agentToolPermissionClear", id)
                    = IF agents[id].permissionSent THEN 1 ELSE 0
               /\ agents[id].permissionSent =>
                    out'[1].type = "agentToolPermissionClear"
               /\ (\A k \in (n0 + 1)..n1 : parsed'[id][k].text # TextLine)
                    => id \notin waitingTimers' /\ liveWaiting'[id] = 0
               /\ (\A k \in (n0 + 1)..n1 : parsed'[id][k].text # ToolUseLine)
                    => id \notin permissionTimers' /\ livePermission'[id] = 0
          /\ (/\ parsed'[id] = parsed[id]
              /\ agents'[id].fileOffset > agents[id].fileOffset
              /\ agents'[id].lineBuffer # <<>>) =>
               /\ agents'[id].permissionSent = agents[id].permissionSent
               /\ (id \in waitingTimers') = (id \in waitingTimers)
               /\ (id \in permissionTimers') = (id \in permissionTimers)
               /\ liveWaiting'[id] = liveWaiting[id]
               /\ livePermission'[id] = livePermission[id]
               /\ out' = <<>>]_vars

\* a read has delivered a line to a session whose permission request was
\* out: the request is withdrawn
C27_Witness ==
  /\ 1 \in DOMAIN agents
  /\ Len(parsed[1]) = 2
  /\ parsed[1][1].text = ToolUseLine
  /\ ~agents[1].permissionSent
  /\ Len(out) > 0
  /\ out[1] = [type |-> "agentToolPermissionClear", id |-> 1]

\* C28: for every session id at most one waiting-fallback timeout and at
\* most one permission timeout is pending, and the pending one is the one
\* held in the timer map.
C28_OneTimerPerKind ==
  \A id \in Ids :
    /\ liveWaiting[id] = (IF id \in waitingTimers THEN 1 ELSE 0)
    /\ livePermission[id] = (IF id \in permissionTimers THEN 1 ELSE 0)

\* the waiting fallback has been armed twice in a row and one timeout is
\* pending
C28_Witness ==
  /\ Len(parsed[1]) = 2
  /\ parsed[1][1].text = TextLine
  /\ parsed[1][2].text = TextLine
  /\ 1 \in waitingTimers
  /\ liveWaiting[1] = 1

\* C29: a read that delivers a tool-result record for a tool that is not in
\* flight leaves the in-flight set as it was, schedules no tool-done
\* notification and posts nothing.
C29_UnknownToolResultIgnored ==
  [][\A id \in DOMAIN agents \cap DOMAIN agents' :
       (Delivered(id, ToolResultLine) /\ ToolId \notin agents[id].activeToolIds)
         => /\ agents'[id].activeToolIds = agents[id].activeToolIds
            /\ toolDoneTimers'[id] = toolDoneTimers[id]
            /\ out' = <<>>]_vars

\* C30: a read that delivers a plain user prompt record leaves the session
\* with nothing in flight and neither waiting nor asking for permission,
\* and posts exactly one activity-cleared notification.
C30_PromptClearsActivity ==
  [][\A id \in DOMAIN agents \cap DOMAIN agents' :
       (Delivered(id, PromptBlocksLine) \/ Delivered(id, PromptTextLine))
         => /\ agents'[id].activeToolIds = {}
            /\ ~agents'[id].isWaiting
            /\ ~agents'[id].permissionSent
            /\ TypeCount(out', "agentToolsClear", id) = 1]_vars

\* C31: a reset of a session to a new log file keeps the session under its
\* id; when it returns, every read that was scheduled for the old file is
\* stopped (one poll and at most one watcher run, those of the new file, and
\* no file-appearance poll), no timeout is pending and the activity is
\* cleared; and what the session has read is the new file alone, from
\* offset 0: the lines handed over are the complete lines of the new file
\* and the buffer its trailing fragment, nothing of the old file before it.
C31_ReassignDetachesThenAttaches ==
  [][\A id \in Ids :
       (lastOp'.op = "reassign" /\ lastOp'.id = id) =>
         /\ id \in DOMAIN agents'
         /\ agents'[id].jsonlFile = ResetFile
         /\ id \notin liveJsonlPoll'
         /\ livePoll'[id] = 1
         /\ liveWatch'[id] = IF FileExists(ResetFile) THEN 1 ELSE 0
         /\ liveWaiting'[id] = 0
         /\ livePermission'[id] = 0
         /\ agents'[id].activeToolIds = {}
         /\ ~agents'[id].isWaiting
         /\ ~agents'[id].permissionSent
         /\ IF FileExists(ResetFile)
            THEN LET c == files[ResetFile].content
                 IN /\ agents'[id].fileOffset = Len(c)
                    /\ [i \in 1..Len(parsed'[id]) |-> parsed'[id][i].text]
                         = CompleteLines(c, Len(c))
                    /\ agents'[id].lineBuffer = Last(Split(Decode(c)))
            ELSE /\ agents'[id].fileOffset = 0
                 /\ agents'[id].lineBuffer = <<>>
                 /\ parsed'[id] = <<>>]_vars

\* C32: a focus-session message sets the focused-session reference to the
\* id it carries and changes nothing else: the log files, the persisted
\* snapshot, the session map with every session's fields, the id counter,
\* the known-file set, every timer and watcher and every pending callback
\* are as before, and nothing is posted.
C32_FocusChangesOnlyTheReference ==
  [][lastOp'.op = "focus" =>
       /\ activeAgentId' = lastOp'.id
       /\ out' = <<>>
       /\ UNCHANGED <<files, persisted, agents, nextAgentId, knownJsonlFiles,
                      projectScanTimer, scanDir, disposed, layoutWatcher,
                      assetTask, cleanupTimer, fileWatchers,
                      pollingTimers, jsonlPollTimers, waitingTimers,
                      permissionTimers, liveWatch, livePoll, liveJsonlPoll,
                      procs, parsed, issued, retired, liveWaiting,
                      livePermission, toolDoneTimers, clientVars,
                      terminalVars>>]_vars

\* a tracked, watched session other than the one focused before has just
\* been focused, on a connection with a scan timer and a persisted snapshot
C32_Witness ==
  /\ lastOp.op = "focus"
  /\ lastOp.id \in DOMAIN agents
  /\ activeAgentId = lastOp.id
  /\ Cardinality(DOMAIN agents) >= 2
  /\ lastOp.id \in fileWatchers \cap pollingTimers
  /\ projectScanTimer
  /\ knownJsonlFiles # {}
  /\ persisted # {}

\* C33: no step takes a path out of the known-file set, and every session
\* that a scan tick creates is for a path that was not in the known-file
\* set when the tick began, no two of them for the same path.
C33_KnownFilesGrowAndScanOnce ==
  [][/\ knownJsonlFiles \subseteq knownJsonlFiles'
     /\ \A id \in DOMAIN agents' \ DOMAIN agents :
          (\E order \in Listings : ScanTick(order, TRUE)) =>
            /\ agents'[id].jsonlFile \notin knownJsonlFiles
            /\ \A j \in DOMAIN agents' \ (DOMAIN agents \cup {id}) :
                 agents'[j].jsonlFile # agents'[id].jsonlFile]_vars

\* a scan tick has just created the session of the sub-session log, its
\* first message, after it passed over the primary log, which is listed
\* first, is fresh and has no session, but was in the known-file set
C33_Witness ==
  /\ lastOp.op = "scan"
  /\ Len(out) >= 1
  /\ out[1].type = "agentCreated"
  /\ out[1].id \in DOMAIN agents
  /\ IsSubagent(agents[out[1].id].jsonlFile)
  /\ TailFile \in knownJsonlFiles
  /\ FileExists(TailFile)
  /\ FileAge(TailFile) <= ACTIVE_THRESHOLD_MS
  /\ TailFile \notin TrackedFiles(agents)

\* C34: every tracked session has a scheduled reader: a running backup poll
\* interval or a running file-appearance poll.
C34_EverySessionHasAReader ==
  \A id \in DOMAIN agents : livePoll[id] > 0 \/ id \in liveJsonlPoll

\* C35: a scan timer, once installed, stays the one timer of the connection
\* and keeps the directory it was installed for; a client-ready handled
\* while it is installed seeds nothing (the paths it adds to the known-file
\* set are paths of tracked sessions); and after every step each tracked
\* session lies in the directory that the installed timer scans.
C35_OneScanTimerCoversEverySession ==
  [][/\ projectScanTimer => (projectScanTimer' /\ scanDir' = scanDir)
     /\ (projectScanTimer /\ \E i \in DOMAIN out' :
                                out'[i].type = "settingsLoaded")
          => knownJsonlFiles' \ knownJsonlFiles
               \subseteq {agents'[i].jsonlFile : i \in DOMAIN agents'}
     /\ \A id \in DOMAIN agents' :
          projectScanTimer' /\ agents'[id].projectDir = scanDir']_vars

\* C36: once dispose() has run, whatever steps follow, the connection has no
\* tracked session, no running file watcher, backup poll or file-appearance
\* poll, no scan timer, no cleanup timer and no layout watcher; and a call
\* of dispose() on a disposed connection changes nothing.
C36_NothingHeldAfterDispose ==
  [][/\ disposed' =>
          /\ DOMAIN agents' = {}
          /\ \A id \in Ids : liveWatch'[id] = 0 /\ livePoll'[id] = 0
          /\ liveJsonlPoll' = {}
          /\ ~projectScanTimer'
          /\ ~cleanupTimer'
          /\ ~layoutWatcher'
     /\ (disposed /\ lastOp'.op = "dispose") =>
          UNCHANGED <<files, persisted, agents, nextAgentId, activeAgentId,
                      knownJsonlFiles, projectScanTimer, scanDir, disposed,
                      layoutWatcher, assetTask, cleanupTimer, fileWatchers,
                      pollingTimers, jsonlPollTimers, waitingTimers,
                      permissionTimers, liveWatch, livePoll, liveJsonlPoll,
                      procs, parsed, liveWaiting, livePermission,
                      toolDoneTimers>>]_vars

\* C37: the step in which dispose() runs leaves every session that was
\* tracked listed in agents.json, with its id and its log path.
C37_DisposeKeepsTheSnapshot ==
  [][(~disposed /\ disposed') =>
       \A id \in DOMAIN agents :
         \E p \in persisted' :
           p.id = id /\ p.jsonlFile = agents[id].jsonlFile]_vars

\* the messages of a sequence of send calls, in the order of the calls
RECURSIVE WireMsgs(_)
WireMsgs(w) ==
  IF w = <<>> THEN <<>> ELSE <<Head(w).msg>> \o WireMsgs(Tail(w))

\* C38: The messages sent so far followed by the queued ones are the messages
\* posted so far, each once and in the order of the posts; a message posted
\* while the socket is open is sent at once, any other is queued; and when a
\* socket opens the queued messages are sent on it, in order, and the queue
\* is emptied (so that a later post is sent after them), through every close
\* and reconnection.
C38_SentOnceInOrder ==
  [][/\ WireMsgs(wire') \o pending' = [i \in 1..posted' |-> i]
     /\ posted' # posted =>
          IF wsReadyState = "OPEN"
            THEN /\ Len(wire') = Len(wire) + 1
                 /\ wire'[Len(wire')].msg = posted'
                 /\ pending' = pending
            ELSE /\ pending' = Append(pending, posted')
                 /\ wire' = wire
     /\ (wsReadyState # "OPEN" /\ wsReadyState' = "OPEN") =>
          /\ pending' = <<>>
          /\ WireMsgs(wire') = WireMsgs(wire) \o pending
          /\ \A i \in Len(wire) + 1..Len(wire') :
               wire'[i].sock = sockets /\ wire'[i].queued
     /\ (posted' = posted /\ wsReadyState' # "OPEN") =>
          wire' = wire /\ pending' = pending]_vars

\* messages queued while the first socket was closed went out on the second
\* socket, after a message sent on the first and before one posted later
C38_Witness ==
  /\ Len(wire) = 3
  /\ wire[1].sock = 1 /\ ~wire[1].queued
  /\ wire[2].sock = 2 /\ wire[2].queued
  /\ wire[3].sock = 2 /\ ~wire[3].queued

\* the transcript readers of agent id are those of one startWatchingTranscript:
\* its retry timeout, or its interval together with at most one fs.watch
\* handle
OneTranscriptWatcher(jp, lp, lw, id) ==
  \/ id \in jp /\ lp[id] = 0 /\ lw[id] = 0
  \/ id \notin jp /\ lp[id] = 1 /\ lw[id] <= 1

====
